---- MODULE Spec2Model ----
(***************************************************************************)
(* The journal text engine of better-note-taking: the pure text-to-text    *)
(* functions of utils/textManager.ts, utils/doingDone.js,                  *)
(* utils/eventTasks.ts and utils/constants.ts, and the App handler that    *)
(* toggles a line.  A document is a string; a line array is a sequence of  *)
(* strings.  JavaScript indices are 0-based and -1 means "not found"; the  *)
(* sequences here are 1-based and 0 means "not found".                     *)
(***************************************************************************)
EXTENDS Integers, Sequences, FiniteSets, TLC

VARIABLES content, op, arg, out

vars == <<content, op, arg, out>>

(***************************************************************************)
(* String primitives (String.prototype.* and the regular expressions).     *)
(***************************************************************************)

\* s[i-1] in JavaScript
Ch(s, i) == SubSeq(s, i, i)

\* the class \s, restricted to the characters the documents here are made of
WS == {" ", "\t"}

Digits == {"0", "1", "2", "3", "4", "5", "6", "7", "8", "9"}

UpperAlpha == <<"A","B","C","D","E","F","G","H","I","J","K","L","M",
                "N","O","P","Q","R","S","T","U","V","W","X","Y","Z">>

LowerAlpha == <<"a","b","c","d","e","f","g","h","i","j","k","l","m",
                "n","o","p","q","r","s","t","u","v","w","x","y","z">>

MinOf(S) == CHOOSE x \in S : \A y \in S : x <= y

MaxOf(S) == CHOOSE x \in S : \A y \in S : y <= x

\* s.slice(i-1)
From(s, i) == SubSeq(s, i, Len(s))

\* index of the first character that is not whitespace, Len(s)+1 when there is none
FirstNonWs(s) ==
  LET S == {i \in 1..Len(s) : Ch(s, i) \notin WS}
  IN  IF S = {} THEN Len(s) + 1 ELSE MinOf(S)

\* s.trim()
Trim(s) ==
  LET S == {i \in 1..Len(s) : Ch(s, i) \notin WS}
  IN  IF S = {} THEN "" ELSE SubSeq(s, MinOf(S), MaxOf(S))

\* s.startsWith(p)
StartsWith(s, p) == Len(p) <= Len(s) /\ SubSeq(s, 1, Len(p)) = p

\* s.endsWith(p)
EndsWith(s, p) == Len(p) <= Len(s) /\ SubSeq(s, Len(s) - Len(p) + 1, Len(s)) = p

RECURSIVE toLowerCase(_)
toLowerCase(s) ==
  IF s = "" THEN ""
  ELSE LET c == Head(s)
           I == {i \in 1..Len(UpperAlpha) : UpperAlpha[i] = c}
       IN  (IF I = {} THEN c ELSE LowerAlpha[MinOf(I)]) \o toLowerCase(Tail(s))

RECURSIVE toUpperCase(_)
toUpperCase(s) ==
  IF s = "" THEN ""
  ELSE LET c == Head(s)
           I == {i \in 1..Len(LowerAlpha) : LowerAlpha[i] = c}
       IN  (IF I = {} THEN c ELSE UpperAlpha[MinOf(I)]) \o toUpperCase(Tail(s))

\* /^\d{4}-\d{2}-\d{2}/.test(s)
dateRegex(s) ==
  /\ Len(s) >= 10
  /\ \A i \in {1, 2, 3, 4, 6, 7, 9, 10} : Ch(s, i) \in Digits
  /\ Ch(s, 5) = "-"
  /\ Ch(s, 8) = "-"

\* /^\d{4}-\d{2}-\d{2}$/.test(s)
dateRegexExact(s) == Len(s) = 10 /\ dateRegex(s)

\* /^\[(.*?)\]$/.test(s): with both anchors the lazy group takes all that is
\* between the first character "[" and the last character "]"
headerRegex(s) == Len(s) >= 2 /\ Ch(s, 1) = "[" /\ Ch(s, Len(s)) = "]"

\* the group m[1] of a headerRegex match
headerLabel(s) == SubSeq(s, 2, Len(s) - 1)

\* s.replace(/^\s*x\s+/i, '')
StripX(s) ==
  LET i == FirstNonWs(s)
  IN  IF i < Len(s) /\ Ch(s, i) \in {"x", "X"} /\ Ch(s, i + 1) \in WS
      THEN LET rest == From(s, i + 1) IN From(rest, FirstNonWs(rest))
      ELSE s

\* s.replace(/^\s*-\s+/, '')
StripDash(s) ==
  LET i == FirstNonWs(s)
  IN  IF i < Len(s) /\ Ch(s, i) = "-" /\ Ch(s, i + 1) \in WS
      THEN LET rest == From(s, i + 1) IN From(rest, FirstNonWs(rest))
      ELSE s

\* s.replace(/\s+/g, ' ')
RECURSIVE CollapseWs(_)
CollapseWs(s) ==
  IF s = "" THEN ""
  ELSE IF Head(s) \in WS THEN " " \o CollapseWs(From(s, FirstNonWs(s)))
  ELSE Head(s) \o CollapseWs(Tail(s))

\* s.split('\n')
RECURSIVE Split(_)
Split(s) ==
  LET N == {i \in 1..Len(s) : Ch(s, i) = "\n"}
  IN  IF N = {} THEN <<s>>
      ELSE LET i == MinOf(N)
           IN  <<SubSeq(s, 1, i - 1)>> \o Split(From(s, i + 1))

\* lines.join('\n')
RECURSIVE Join(_)
Join(lines) ==
  IF lines = <<>> THEN ""
  ELSE IF Len(lines) = 1 THEN lines[1]
  ELSE lines[1] \o "\n" \o Join(Tail(lines))

\* s.replace(/^\n+/, '')
RECURSIVE StripLeadingNewlines(_)
StripLeadingNewlines(s) ==
  IF s # "" /\ Head(s) = "\n" THEN StripLeadingNewlines(Tail(s)) ELSE s

\* s.includes(p)
Includes(s, p) ==
  \E i \in 1..(Len(s) - Len(p) + 1) : SubSeq(s, i, i + Len(p) - 1) = p

\* seq.includes(x)
InSeq(seq, x) == \E i \in 1..Len(seq) : seq[i] = x

\* lines.slice(a-1, b) for 1 <= a, b <= Len(lines); empty when a > b
Slice(lines, a, b) == IF a > b THEN <<>> ELSE SubSeq(lines, a, b)

(***************************************************************************)
(* utils/constants.ts                                                      *)
(***************************************************************************)

\* a list without its repetitions, first occurrences kept ([...new Set(list)])
RECURSIVE Unique(_)
Unique(seq) ==
  IF seq = <<>> THEN <<>>
  ELSE LET init == Unique(SubSeq(seq, 1, Len(seq) - 1))
           last == seq[Len(seq)]
       IN  IF InSeq(init, last) THEN init ELSE Append(init, last)

\* the UTF-16 code unit of a character of a date token
CharCode(c) ==
  IF c = "-" THEN 45 ELSE 48 + MinOf({n \in 0..9 : ToString(n) = c})

\* a < b on strings of digits and dashes (the comparison of code units)
RECURSIVE StrLess(_, _)
StrLess(a, b) ==
  IF b = "" THEN FALSE
  ELSE IF a = "" THEN TRUE
  ELSE IF Head(a) = Head(b) THEN StrLess(Tail(a), Tail(b))
  ELSE CharCode(Head(a)) < CharCode(Head(b))

\* unique.sort((a, b) => b.localeCompare(a)): descending; on tokens of one
\* width made of digits and dashes localeCompare orders as StrLess does
RECURSIVE SortDesc(_)
SortDesc(seq) ==
  IF seq = <<>> THEN <<>>
  ELSE LET m == MinOf({i \in 1..Len(seq) :
                        \A j \in 1..Len(seq) : ~StrLess(seq[i], seq[j])})
       IN  <<seq[m]>> \o SortDesc(SubSeq(seq, 1, m - 1) \o SubSeq(seq, m + 1, Len(seq)))

\* content.match(/^\d{4}-\d{2}-\d{2}/gm): with the m flag ^ is the start of a
\* line, and the line is not trimmed
dateMatches(text) ==
  LET lines == Split(text)
      idx == SelectSeq([i \in 1..Len(lines) |-> i], LAMBDA i : dateRegex(lines[i]))
  IN  [k \in 1..Len(idx) |-> SubSeq(lines[idx[k]], 1, 10)]

extractDatesFromContent(text) ==
  IF text = "" THEN <<>> ELSE SortDesc(Unique(dateMatches(text)))

\* a test whose regular expression lacks the m flag: ^ is the start of the text
contentHasDate_noMultiline(text, dateStr) ==
  IF text = "" \/ dateStr = "" THEN FALSE ELSE StartsWith(text, dateStr)

\* new RegExp(`^${dateStr}`, 'm').test(content), for a dateStr without
\* regular-expression metacharacters
contentHasDate(text, dateStr) ==
  IF text = "" \/ dateStr = "" THEN FALSE
  ELSE \E i \in 1..Len(Split(text)) : StartsWith(Split(text)[i], dateStr)

\* isEmptyTemplate: sectionPattern has no m flag and no ^, so a header is
\* found anywhere in the text, in any case, and its body runs to the next "["
\* or to the end of the text
isEmptyTemplate(text) ==
  LET N == {i \in 1..Len(text) : Ch(text, i) \notin (WS \cup {"\n"})}
      trimmed == IF N = {} THEN "" ELSE SubSeq(text, MinOf(N), MaxOf(N))
      n == Len(trimmed)
      names == {"[EVENTS]", "[DOING]", "[DONE]", "[NOTES]"}
      starts == {p \in 1..n : \E h \in names :
                   /\ p + Len(h) - 1 <= n
                   /\ toUpperCase(SubSeq(trimmed, p, p + Len(h) - 1)) = h}
      bodyFrom(p) == MinOf({q \in p..n : Ch(trimmed, q) = "]"}) + 1
      bodyEnd(p) == LET Q == {q \in bodyFrom(p)..n : Ch(trimmed, q) = "["}
                    IN  IF Q = {} THEN n ELSE MinOf(Q) - 1
      sectionContent(p) == IF bodyFrom(p) > bodyEnd(p) THEN ""
                           ELSE SubSeq(trimmed, bodyFrom(p), bodyEnd(p))
      cleaned(p) == SelectSeq(Split(sectionContent(p)),
                              LAMBDA l : Trim(l) # "" /\ ~StartsWith(Trim(l), "=="))
  IN  IF trimmed = "" THEN TRUE
      ELSE IF Len(dateMatches(trimmed)) > 1 THEN FALSE
      ELSE IF \E p \in starts : cleaned(p) # <<>> THEN FALSE
      ELSE starts # {}

(***************************************************************************)
(* utils/textManager.ts                                                    *)
(***************************************************************************)

DefaultSeparator == "========================================"

\* index of the first line whose trimmed text starts with dateStr, 0 if none
firstDateIndex(lines, dateStr) ==
  LET S == {i \in 1..Len(lines) : StartsWith(Trim(lines[i]), dateStr)}
  IN  IF S = {} THEN 0 ELSE MinOf(S)

\* smallest element of S, or dflt when S is empty: a loop that breaks at its
\* first hit and otherwise leaves the initial value
FirstOr(S, dflt) == IF S = {} THEN dflt ELSE MinOf(S)

updateSectionForDate(text, date, sectionName, newItems) ==
  LET lines == Split(text)
      sectionHeader == "[" \o sectionName \o "]"
      dateIndex == firstDateIndex(lines, date)
      n == Len(lines)
      \* the outer loop stops at the first date line after dateIndex
      stop == FirstOr({i \in (dateIndex + 1)..n : dateRegex(Trim(lines[i]))}, n + 1)
      sectionIndex ==
        FirstOr({i \in (dateIndex + 1)..(stop - 1) : Trim(lines[i]) = sectionHeader}, 0)
      nextSectionIndex ==
        FirstOr({j \in (sectionIndex + 1)..n :
                   dateRegex(Trim(lines[j])) \/ headerRegex(Trim(lines[j]))}, n + 1)
  IN  IF dateIndex = 0
      THEN LET blockLines == <<date, DefaultSeparator, sectionHeader>> \o newItems
                               \o <<"", "[DOING]", "", "[DONE]", "", "[NOTES]", "", "">>
               existing == StripLeadingNewlines(text)
           IN  Join(blockLines) \o existing
      ELSE IF sectionIndex # 0
      THEN LET before == Slice(lines, 1, sectionIndex)
               after == Slice(lines, nextSectionIndex, n)
           IN  Join(before \o newItems \o after)
      ELSE LET at == dateIndex + 1
               insertIndex == IF at <= n /\ StartsWith(lines[at], "==") THEN at + 1 ELSE at
               before == Slice(lines, 1, insertIndex - 1)
               after == Slice(lines, insertIndex, n)
               newBlock == <<sectionHeader>> \o newItems \o <<"">>
           IN  Join(before \o newBlock \o after)

isBlank(s) == Trim(s) = ""

\* ensureSection and the push of one block line: acc is [sections, order, cur]
parseStep(acc, raw) ==
  LET t == Trim(raw) IN
  IF headerRegex(t)
  THEN LET h == "[" \o toUpperCase(headerLabel(t)) \o "]"
       IN  [sections |-> IF h \in DOMAIN acc.sections THEN acc.sections
                          ELSE [x \in DOMAIN acc.sections \cup {h} |->
                                  IF x = h THEN <<>> ELSE acc.sections[x]],
            order |-> IF InSeq(acc.order, h) THEN acc.order ELSE Append(acc.order, h),
            cur |-> h]
  ELSE IF acc.cur # ""
  THEN [acc EXCEPT !.sections[acc.cur] = Append(@, raw)]
  ELSE acc

\* "Parse sections within block": the for loop over blockLines
RECURSIVE parseSections(_)
parseSections(blockLines) ==
  IF blockLines = <<>>
  THEN [sections |-> [x \in {} |-> <<>>], order |-> <<>>, cur |-> ""]
  ELSE parseStep(parseSections(SubSeq(blockLines, 1, Len(blockLines) - 1)),
                 blockLines[Len(blockLines)])

\* "Append non-duplicate lines (exact match) preserving order"
RECURSIVE mergeLines(_, _)
mergeLines(cur, incoming) ==
  IF incoming = <<>> THEN cur
  ELSE LET line == Head(incoming)
           nxt == IF isBlank(line)
                  THEN IF cur = <<>> \/ ~isBlank(cur[Len(cur)])
                       THEN Append(cur, line) ELSE cur
                  ELSE IF InSeq(cur, line) THEN cur ELSE Append(cur, line)
       IN  mergeLines(nxt, Tail(incoming))

\* "Merge into accumulator", the else branch: the loop over the block's order
RECURSIVE mergeSections(_, _, _)
mergeSections(existing, sections, order) ==
  IF order = <<>> THEN existing
  ELSE LET h == Head(order)
           incoming == sections[h]
           nxt == IF h \notin DOMAIN existing.sections
                  THEN [existing EXCEPT
                          !.sections = [x \in DOMAIN existing.sections \cup {h} |->
                                          IF x = h THEN incoming
                                          ELSE existing.sections[x]],
                          !.order = Append(existing.order, h)]
                  ELSE [existing EXCEPT
                          !.sections[h] = mergeLines(existing.sections[h], incoming)]
       IN  mergeSections(nxt, sections, Tail(order))

\* one turn of the while loop at a date line i: the separator, the block lines
\* and the merge; st is [days, dayOrder]
scanBlock(lines, i, nextDate, st) ==
  LET date == Trim(lines[i])
      hasSep == i + 1 <= Len(lines) /\ StartsWith(Trim(lines[i + 1]), "==")
      separator == IF hasSep THEN Trim(lines[i + 1]) ELSE DefaultSeparator
      first == IF hasSep THEN i + 2 ELSE i + 1
      blockLines == Slice(lines, first, nextDate - 1)
      parsed == parseSections(blockLines)
  IN  IF date \notin DOMAIN st.days
      THEN [days |-> [d \in DOMAIN st.days \cup {date} |->
                        IF d = date
                        THEN [separator |-> separator, sections |-> parsed.sections,
                              order |-> parsed.order]
                        ELSE st.days[d]],
            dayOrder |-> Append(st.dayOrder, date)]
      ELSE [st EXCEPT !.days[date] = mergeSections(@, parsed.sections, parsed.order)]

\* the while loop over the lines, from line i on
RECURSIVE scanDays(_, _, _)
scanDays(lines, i, st) ==
  LET D == {k \in i..Len(lines) : dateRegexExact(Trim(lines[k]))}
  IN  IF D = {} THEN st
      ELSE LET k == MinOf(D)
               sepTaken == k + 1 <= Len(lines) /\ StartsWith(Trim(lines[k + 1]), "==")
               from == IF sepTaken THEN k + 2 ELSE k + 1
               nextDate == FirstOr({j \in from..Len(lines) :
                                      dateRegexExact(Trim(lines[j]))}, Len(lines) + 1)
           IN  scanDays(lines, nextDate, scanBlock(lines, k, nextDate, st))

preferred == <<"[EVENTS]", "[DOING]", "[BACKLOG]", "[DONE]", "[NOTES]">>

\* a pushSectionBodyCanonical that pushes the body as collected
trimBody_asCollected(body) == body

\* a pushSectionBodyCanonical that forgets the trailing blank lines
trimBody_leadingOnly(body) ==
  LET S == {i \in 1..Len(body) : ~isBlank(body[i])}
  IN  IF S = {} THEN <<>> ELSE SubSeq(body, MinOf(S), Len(body))

\* pushSectionBodyCanonical: the body without its leading and trailing blank lines
trimBody(body) ==
  LET S == {i \in 1..Len(body) : ~isBlank(body[i])}
  IN  IF S = {} THEN <<>> ELSE SubSeq(body, MinOf(S), MaxOf(S))

\* a loop over the headers that pushes an empty line after the last section too
RECURSIVE pushSections_blankAfterEach(_, _)
pushSections_blankAfterEach(acc, headers) ==
  IF headers = <<>> THEN <<>>
  ELSE <<Head(headers)>> \o trimBody(acc.sections[Head(headers)]) \o <<"">>
       \o pushSections_blankAfterEach(acc, Tail(headers))

\* the loop over the headers of one day
RECURSIVE pushSections(_, _)
pushSections(acc, headers) ==
  IF headers = <<>> THEN <<>>
  ELSE <<Head(headers)>> \o trimBody(acc.sections[Head(headers)])
       \o (IF Len(headers) # 1 THEN <<"">> ELSE <<>>)
       \o pushSections(acc, Tail(headers))

\* a rebuild that keeps the sections of a day in the order they were seen
RECURSIVE rebuild_orderSeen(_, _)
rebuild_orderSeen(st, dayOrder) ==
  IF dayOrder = <<>> THEN <<>>
  ELSE LET date == Head(dayOrder)
           acc == st.days[date]
       IN  <<date, acc.separator>> \o pushSections(acc, acc.order) \o <<"">>
           \o rebuild_orderSeen(st, Tail(dayOrder))

\* "Rebuild content in the original day encounter order"
RECURSIVE rebuild(_, _)
rebuild(st, dayOrder) ==
  IF dayOrder = <<>> THEN <<>>
  ELSE LET date == Head(dayOrder)
           acc == st.days[date]
           headers == SelectSeq(preferred, LAMBDA h : h \in DOMAIN acc.sections)
                      \o SelectSeq(acc.order, LAMBDA h : ~InSeq(preferred, h))
       IN  <<date, acc.separator>> \o pushSections(acc, headers) \o <<"">>
           \o rebuild(st, Tail(dayOrder))

dedupeDateBlocks(text) ==
  IF text = "" THEN text
  ELSE LET lines == Split(text)
           st == scanDays(lines, 1, [days |-> [d \in {} |-> <<>>], dayOrder |-> <<>>])
       IN  IF st.dayOrder = <<>> THEN text
           ELSE Join(rebuild(st, st.dayOrder))

findDateBlockRange(lines, dateStr) ==
  LET start == firstDateIndex(lines, dateStr)
  IN  IF start = 0 THEN [start |-> 0, end |-> 0]
      ELSE [start |-> start,
            end |-> FirstOr({i \in (start + 1)..Len(lines) : dateRegex(Trim(lines[i]))},
                            Len(lines) + 1)]

\* a getSectionLinesForDate that also drops the bullet of each line
getSectionLinesForDate_noBullet(text, dateStr, header) ==
  LET lines == Split(text)
      block == findDateBlockRange(lines, dateStr)
      headerIndex == FirstOr({i \in block.start..(block.end - 1) : Trim(lines[i]) = header}, 0)
      endIndex == FirstOr({i \in (headerIndex + 1)..(block.end - 1) :
                             headerRegex(Trim(lines[i]))}, block.end)
      body == [k \in 1..(endIndex - headerIndex - 1) |-> Trim(lines[headerIndex + k])]
  IN  IF block.start = 0 THEN <<>>
      ELSE IF headerIndex = 0 THEN <<>>
      ELSE LET kept == SelectSeq(body, LAMBDA t : t # "" /\ ~StartsWith(t, "=="))
           IN  [k \in 1..Len(kept) |-> StripDash(kept[k])]

\* block.end and endIndex are exclusive, as in the source
getSectionLinesForDate(text, dateStr, header) ==
  LET lines == Split(text)
      block == findDateBlockRange(lines, dateStr)
      headerIndex == FirstOr({i \in block.start..(block.end - 1) : Trim(lines[i]) = header}, 0)
      endIndex == FirstOr({i \in (headerIndex + 1)..(block.end - 1) :
                             headerRegex(Trim(lines[i]))}, block.end)
      body == [k \in 1..(endIndex - headerIndex - 1) |-> Trim(lines[headerIndex + k])]
  IN  IF block.start = 0 THEN <<>>
      ELSE IF headerIndex = 0 THEN <<>>
      ELSE SelectSeq(body, LAMBDA t : t # "" /\ ~StartsWith(t, "=="))

\* /^x\s+/i.test(s)
completedRegex(s) == Len(s) >= 2 /\ Ch(s, 1) \in {"x", "X"} /\ Ch(s, 2) \in WS

\* a getCarryOverDoingItems that takes the oldest prior date
getCarryOverDoingItems_oldestPrior(text, toDateStr) ==
  IF text = "" \/ toDateStr = "" THEN <<>>
  ELSE LET dates == extractDatesFromContent(text)
           P == {i \in 1..Len(dates) : StrLess(dates[i], toDateStr)}
       IN  IF P = {} THEN <<>>
           ELSE LET prev == dates[MaxOf(P)]
                    doing == getSectionLinesForDate(text, prev, "[DOING]")
                IN  SelectSeq(doing, LAMBDA l : ~completedRegex(Trim(l)))

getCarryOverDoingItems(text, toDateStr) ==
  IF text = "" \/ toDateStr = "" THEN <<>>
  ELSE LET dates == extractDatesFromContent(text)
           P == {i \in 1..Len(dates) : StrLess(dates[i], toDateStr)}
       IN  IF P = {} THEN <<>>
           ELSE LET prev == dates[MinOf(P)]
                    doing == getSectionLinesForDate(text, prev, "[DOING]")
                IN  SelectSeq(doing, LAMBDA l : ~completedRegex(Trim(l)))

(***************************************************************************)
(* utils/doingDone.js                                                      *)
(***************************************************************************)

\* lines[i-1] || '': the line, or '' past the end of the array
At(lines, i) == IF i \in 1..Len(lines) THEN lines[i] ELSE ""

\* lines.splice(i-1, 1): the array without its element i
RemoveAt(lines, i) == SubSeq(lines, 1, i - 1) \o SubSeq(lines, i + 1, Len(lines))

\* lines.splice(p-1, 0, ...items): items inserted before element p; splice
\* clamps a start past the end to the end
InsertAt(lines, p, items) ==
  LET q == IF p > Len(lines) + 1 THEN Len(lines) + 1 ELSE p
  IN  SubSeq(lines, 1, q - 1) \o items \o SubSeq(lines, q, Len(lines))

\* s.split(/\s+/)
RECURSIVE SplitWs(_)
SplitWs(s) ==
  LET W == {i \in 1..Len(s) : Ch(s, i) \in WS}
  IN  IF W = {} THEN <<s>>
      ELSE LET i == MinOf(W)
               rest == From(s, i)
           IN  <<SubSeq(s, 1, i - 1)>> \o SplitWs(From(rest, FirstNonWs(rest)))

\* tokens.join(' ')
RECURSIVE JoinSp(_)
JoinSp(tokens) ==
  IF tokens = <<>> THEN ""
  ELSE IF Len(tokens) = 1 THEN tokens[1]
  ELSE tokens[1] \o " " \o JoinSp(Tail(tokens))

isTagToken_anyHash(t) == StartsWith(t, "#")

\* last.startsWith('#') && last.length > 1
isTagToken(t) == StartsWith(t, "#") /\ Len(t) > 1

\* the while loop that pops the trailing tags: how many tokens stay
RECURSIVE keptTokens(_)
keptTokens(tokens) ==
  IF tokens # <<>> /\ isTagToken(tokens[Len(tokens)])
  THEN keptTokens(SubSeq(tokens, 1, Len(tokens) - 1))
  ELSE Len(tokens)

extractTagsFromLine(line) ==
  LET trimmed == Trim(line)
      working == Trim(StripDash(StripX(trimmed)))
      tokens == SplitWs(working)
      k == keptTokens(tokens)
  IN  IF trimmed = "" \/ working = "" THEN [baseText |-> "", tags |-> <<>>]
      ELSE [baseText |-> Trim(JoinSp(SubSeq(tokens, 1, k))),
            tags |-> SubSeq(tokens, k + 1, Len(tokens))]

normalizeForMatch(line) == toLowerCase(CollapseWs(StripDash(StripX(Trim(line)))))

isDateHeader(line) == dateRegex(Trim(line))

isSectionHeader(line) == headerRegex(Trim(line))

\* a child test that takes one leading space for indentation
isIndented_anySpace(line) == StartsWith(line, " ") \/ StartsWith(line, "\t")

\* line.startsWith('  ') || line.startsWith('\t')
isIndented(line) == StartsWith(line, "  ") \/ StartsWith(line, "\t")

\* a cleaning that also drops the trailing #tags
stripMarkers_dropTags(line) == extractTagsFromLine(line).baseText

\* line.trim().replace(/^\s*x\s+/i, '').replace(/^\s*-\s+/, '').trim()
stripMarkers(line) == Trim(StripDash(StripX(Trim(line))))

\* blockEnd is exclusive, as in the source; dateIndex = 0 stands for null
findDateBlock(lines, dateStr) ==
  LET dateIndex == firstDateIndex(lines, dateStr)
  IN  IF dateIndex = 0 THEN [dateIndex |-> 0, blockEnd |-> 0]
      ELSE [dateIndex |-> dateIndex,
            blockEnd |-> FirstOr({i \in (dateIndex + 1)..Len(lines) : isDateHeader(lines[i])},
                                 Len(lines) + 1)]

\* endIndex is exclusive; headerIndex = 0 stands for null
findSectionWithinBlock(lines, dateIndex, blockEnd, header) ==
  LET headerIndex == FirstOr({i \in dateIndex..(blockEnd - 1) : Trim(At(lines, i)) = header}, 0)
  IN  IF headerIndex = 0 THEN [headerIndex |-> 0, endIndex |-> 0]
      ELSE [headerIndex |-> headerIndex,
            endIndex |-> FirstOr({i \in (headerIndex + 1)..(blockEnd - 1) :
                                    isSectionHeader(At(lines, i)) \/ isDateHeader(At(lines, i))},
                                 blockEnd)]

\* a child sync that writes the completed child without its indentation
markEventChildDone_dropIndent(lines, dateIndex, blockEnd, matchText) ==
  LET events == findSectionWithinBlock(lines, dateIndex, blockEnd, "[EVENTS]")
      matchNorm == normalizeForMatch(matchText)
      hit == FirstOr({i \in (events.headerIndex + 1)..(events.endIndex - 1) :
                        /\ isIndented(At(lines, i))
                        /\ stripMarkers(At(lines, i)) # ""
                        /\ normalizeForMatch(stripMarkers(At(lines, i))) = matchNorm}, 0)
  IN  IF events.headerIndex = 0 \/ matchText = "" \/ hit = 0 THEN lines
      ELSE [lines EXCEPT ![hit] = "x " \o stripMarkers(At(lines, hit))]

\* the child sync of moveDoingItemToDone: "If this task exists as a child under
\* [EVENTS], mark that child as done too"
markEventChildDone(lines, dateIndex, blockEnd, matchText) ==
  LET events == findSectionWithinBlock(lines, dateIndex, blockEnd, "[EVENTS]")
      matchNorm == normalizeForMatch(matchText)
      hit == FirstOr({i \in (events.headerIndex + 1)..(events.endIndex - 1) :
                        /\ isIndented(At(lines, i))
                        /\ stripMarkers(At(lines, i)) # ""
                        /\ normalizeForMatch(stripMarkers(At(lines, i))) = matchNorm}, 0)
  IN  IF events.headerIndex = 0 \/ matchText = "" \/ hit = 0 THEN lines
      ELSE LET line == At(lines, hit)
               indentation == SubSeq(line, 1, FirstNonWs(line) - 1)
           IN  [lines EXCEPT ![hit] = indentation \o "x " \o stripMarkers(line)]

\* the tail of moveDoingItemToDone, from the splice that removes the match
moveMatched(lines0, block, matchIndex) ==
  LET removed == lines0[matchIndex]
      lines1 == RemoveAt(lines0, matchIndex)
      \* blockEnd + 1 of the source: the block's end before the splice
      stale == block.blockEnd
      doneExisting == findSectionWithinBlock(lines1, block.dateIndex, stale, "[DONE]")
      cleaned == stripMarkers(removed)
      baseText == extractTagsFromLine(cleaned).baseText
      matchText == Trim(IF baseText # "" THEN baseText ELSE cleaned)
      doneLine == IF cleaned # "" THEN "x " \o cleaned ELSE ""
      lines2 == markEventChildDone(lines1, block.dateIndex, stale, matchText)
      doingAfterRemoval == findSectionWithinBlock(lines2, block.dateIndex, stale, "[DOING]")
      afterDate == block.dateIndex + 1
      insertAt == IF doingAfterRemoval.headerIndex # 0 THEN doingAfterRemoval.endIndex
                  ELSE IF StartsWith(Trim(At(lines2, afterDate)), "==") THEN afterDate + 1
                  ELSE afterDate
  IN  IF doneLine = "" THEN Join(lines1)
      ELSE IF doneExisting.headerIndex # 0
      THEN Join(InsertAt(lines2, doneExisting.headerIndex + 1, <<doneLine>>))
      ELSE Join(InsertAt(lines2, insertAt, <<"[DONE]", doneLine, "">>))

moveDoingItemToDone(text, dateStr, doingRawLine) ==
  LET lines == Split(text)
      block == findDateBlock(lines, dateStr)
      doing == findSectionWithinBlock(lines, block.dateIndex, block.blockEnd, "[DOING]")
      targetNorm == normalizeForMatch(doingRawLine)
      matchIndex == FirstOr({i \in (doing.headerIndex + 1)..(doing.endIndex - 1) :
                               /\ lines[i] # ""
                               /\ \/ lines[i] = doingRawLine
                                  \/ Trim(lines[i]) = Trim(doingRawLine)
                                  \/ normalizeForMatch(lines[i]) = targetNorm}, 0)
  IN  IF text = "" \/ dateStr = "" \/ doingRawLine = "" THEN text
      ELSE IF block.dateIndex = 0 THEN text
      ELSE IF doing.headerIndex = 0 THEN text
      ELSE IF matchIndex = 0 THEN text
      ELSE moveMatched(lines, block, matchIndex)

\* a mirror removal that takes the last matching DOING line
removeDoingMirror_lastMatch(lines, dateStr, removedText) ==
  LET blockAfter == findDateBlock(lines, dateStr)
      doing == findSectionWithinBlock(lines, blockAfter.dateIndex, blockAfter.blockEnd,
                                      "[DOING]")
      matchNorm == normalizeForMatch(removedText)
      candidate(raw) ==
        LET cleaned == stripMarkers(raw)
            baseText == extractTagsFromLine(cleaned).baseText
        IN  Trim(IF baseText # "" THEN baseText ELSE cleaned)
      S == {i \in (doing.headerIndex + 1)..(doing.endIndex - 1) :
              /\ Trim(lines[i]) # ""
              /\ ~StartsWith(Trim(lines[i]), "==")
              /\ normalizeForMatch(candidate(lines[i])) = matchNorm}
  IN  IF blockAfter.dateIndex = 0 \/ doing.headerIndex = 0 \/ S = {} THEN Join(lines)
      ELSE Join(RemoveAt(lines, MaxOf(S)))

\* "Best-effort: also remove the matching DOING line (if present)"
removeDoingMirror(lines, dateStr, removedText) ==
  LET blockAfter == findDateBlock(lines, dateStr)
      doing == findSectionWithinBlock(lines, blockAfter.dateIndex, blockAfter.blockEnd,
                                      "[DOING]")
      matchNorm == normalizeForMatch(removedText)
      candidate(raw) ==
        LET cleaned == stripMarkers(raw)
            baseText == extractTagsFromLine(cleaned).baseText
        IN  Trim(IF baseText # "" THEN baseText ELSE cleaned)
      hit == FirstOr({i \in (doing.headerIndex + 1)..(doing.endIndex - 1) :
                        /\ Trim(lines[i]) # ""
                        /\ ~StartsWith(Trim(lines[i]), "==")
                        /\ normalizeForMatch(candidate(lines[i])) = matchNorm}, 0)
  IN  IF blockAfter.dateIndex = 0 \/ doing.headerIndex = 0 \/ hit = 0 THEN Join(lines)
      ELSE Join(RemoveAt(lines, hit))

deleteEventSubtask(text, dateStr, subtaskRawLine) ==
  LET lines == Split(text)
      block == findDateBlock(lines, dateStr)
      events == findSectionWithinBlock(lines, block.dateIndex, block.blockEnd, "[EVENTS]")
      targetNorm == normalizeForMatch(subtaskRawLine)
      hit == FirstOr({i \in (events.headerIndex + 1)..(events.endIndex - 1) :
                        /\ isIndented(lines[i])
                        /\ \/ lines[i] = subtaskRawLine
                           \/ Trim(lines[i]) = Trim(subtaskRawLine)
                           \/ normalizeForMatch(lines[i]) = targetNorm}, 0)
      removedText == IF hit = 0 THEN "" ELSE stripMarkers(lines[hit])
      lines1 == IF hit = 0 THEN lines ELSE RemoveAt(lines, hit)
  IN  IF text = "" \/ dateStr = "" \/ subtaskRawLine = "" THEN text
      ELSE IF block.dateIndex = 0 THEN text
      ELSE IF events.headerIndex = 0 THEN text
      ELSE IF removedText = "" THEN Join(lines1)
      ELSE removeDoingMirror(lines1, dateStr, removedText)

\* a deleteEvent that removes the event line and leaves its children
deleteEvent_lineOnly(text, dateStr, eventRawLine) ==
  LET lines == Split(text)
      block == findDateBlock(lines, dateStr)
      events == findSectionWithinBlock(lines, block.dateIndex, block.blockEnd, "[EVENTS]")
      hit == FirstOr({i \in (events.headerIndex + 1)..(events.endIndex - 1) :
                        /\ ~isIndented(lines[i])
                        /\ lines[i] # ""
                        /\ \/ lines[i] = eventRawLine
                           \/ Trim(lines[i]) = Trim(eventRawLine)
                           \/ normalizeForMatch(lines[i]) = normalizeForMatch(eventRawLine)}, 0)
  IN  IF text = "" \/ dateStr = "" \/ eventRawLine = "" THEN text
      ELSE IF block.dateIndex = 0 \/ events.headerIndex = 0 \/ hit = 0 THEN text
      ELSE Join(RemoveAt(lines, hit))

\* deleteEvent of utils/doingDone.js, as the specification describes it:
\* "locate the date block and EVENTS section; find the top-level line by
\* exact/trimmed/normalized match; remove it and every immediately-following
\* indented child line (contiguous run) until the next non-indented line or
\* section/date boundary.  No-op if not found."
deleteEvent(text, dateStr, eventRawLine) ==
  LET lines == Split(text)
      block == findDateBlock(lines, dateStr)
      events == findSectionWithinBlock(lines, block.dateIndex, block.blockEnd, "[EVENTS]")
      hit == FirstOr({i \in (events.headerIndex + 1)..(events.endIndex - 1) :
                        /\ ~isIndented(lines[i])
                        /\ lines[i] # ""
                        /\ \/ lines[i] = eventRawLine
                           \/ Trim(lines[i]) = Trim(eventRawLine)
                           \/ normalizeForMatch(lines[i]) = normalizeForMatch(eventRawLine)}, 0)
      \* the first line after the event that is not one of its children
      runEnd == FirstOr({i \in (hit + 1)..(events.endIndex - 1) : ~isIndented(lines[i])},
                        events.endIndex)
  IN  IF text = "" \/ dateStr = "" \/ eventRawLine = "" THEN text
      ELSE IF block.dateIndex = 0 \/ events.headerIndex = 0 \/ hit = 0 THEN text
      ELSE Join(SubSeq(lines, 1, hit - 1) \o SubSeq(lines, runEnd, Len(lines)))

(***************************************************************************)
(* utils/eventTasks.ts                                                     *)
(***************************************************************************)

normalizeEventLineForMatch(line) ==
  toLowerCase(Trim(CollapseWs(StripDash(StripX(Trim(line))))))

\* "Find ALL date blocks matching dateStr": the loop from line i on; each block
\* is [start, end) and the loop resumes at end
RECURSIVE dateBlocksFrom(_, _, _)
dateBlocksFrom(lines, dateStr, i) ==
  LET S == {k \in i..Len(lines) : StartsWith(Trim(lines[k]), dateStr)}
  IN  IF S = {} THEN <<>>
      ELSE LET start == MinOf(S)
               end == FirstOr({j \in (start + 1)..Len(lines) : isDateHeader(lines[j])},
                              Len(lines) + 1)
           IN  <<[start |-> start, end |-> end]>> \o dateBlocksFrom(lines, dateStr, end)

\* an event search that starts with the last block of the date
findEventLine_lastBlockFirst(lines, blocks, eventRawLine) ==
  LET targetNorm == normalizeEventLineForMatch(eventRawLine)
      hits(k) == {i \in blocks[k].start..(blocks[k].end - 1) :
                    \/ lines[i] = eventRawLine
                    \/ Trim(lines[i]) = Trim(eventRawLine)
                    \/ normalizeEventLineForMatch(lines[i]) = targetNorm}
      K == {k \in 1..Len(blocks) : hits(k) # {}}
  IN  IF K = {} THEN 0 ELSE MinOf(hits(MaxOf(K)))

\* "Search ALL matching date blocks for the event line": the index of the first
\* matching line of the first block that holds one, 0 if none
RECURSIVE findEventLine(_, _, _)
findEventLine(lines, blocks, eventRawLine) ==
  IF blocks = <<>> THEN 0
  ELSE LET block == Head(blocks)
           targetNorm == normalizeEventLineForMatch(eventRawLine)
           hit == FirstOr({i \in block.start..(block.end - 1) :
                             \/ lines[i] = eventRawLine
                             \/ Trim(lines[i]) = Trim(eventRawLine)
                             \/ normalizeEventLineForMatch(lines[i]) = targetNorm}, 0)
       IN  IF hit # 0 THEN hit ELSE findEventLine(lines, Tail(blocks), eventRawLine)

addEventTaskToContent(text, dateStr, eventRawLine, taskName) ==
  LET lines0 == Split(text)
      dateBlocks == dateBlocksFrom(lines0, dateStr, 1)
      eventLineIndex == findEventLine(lines0, dateBlocks, eventRawLine)
      owner == MinOf({k \in 1..Len(dateBlocks) :
                        eventLineIndex >= dateBlocks[k].start
                        /\ eventLineIndex < dateBlocks[k].end})
      dateIndex == dateBlocks[owner].start
      childLine == "  - " \o taskName
      lines == InsertAt(lines0, eventLineIndex + 1, <<childLine>>)
      blockEnd == dateBlocks[owner].end + 1
      doingHeaderIndex == FirstOr({i \in dateIndex..(blockEnd - 1) :
                                     Trim(lines[i]) = "[DOING]"}, 0)
      doingItem == "- " \o taskName
      afterDate == dateIndex + 1
      eventsHeaderIndex == FirstOr({i \in dateIndex..(blockEnd - 1) :
                                      Trim(lines[i]) = "[EVENTS]"}, 0)
      eventsEnd == FirstOr({i \in (eventsHeaderIndex + 1)..(blockEnd - 1) :
                              isSectionHeader(lines[i]) \/ isDateHeader(lines[i])}, blockEnd)
      insertDoingAt == IF eventsHeaderIndex # 0 THEN eventsEnd
                       ELSE IF StartsWith(Trim(At(lines, afterDate)), "==") THEN afterDate + 1
                       ELSE afterDate
  IN  IF dateBlocks = <<>> THEN text
      ELSE IF eventLineIndex = 0 THEN text
      ELSE IF doingHeaderIndex # 0
      THEN Join(InsertAt(lines, doingHeaderIndex + 1, <<doingItem>>))
      ELSE Join(InsertAt(lines, insertDoingAt, <<"[DOING]", doingItem, "">>))

\* Math.max(min, Math.min(max, n))
clamp(n, min, max) ==
  LET m == IF max < n THEN max ELSE n
  IN  IF min > m THEN min ELSE m

\* new RegExp(`^${dateStr}$`, 'm').exec(text)?.index ?? -1: the offset (number
\* of characters in front) of the first line equal to dateStr, -1 if none
findExistingDateIndex(text, dateStr) ==
  LET lines == Split(text)
      S == {i \in 1..Len(lines) : lines[i] = dateStr}
  IN  IF dateStr = "" \/ S = {} THEN -1
      ELSE IF MinOf(S) = 1 THEN 0
      ELSE Len(Join(SubSeq(lines, 1, MinOf(S) - 1))) + 1

\* cursor is an offset into notes, as in the source
insertProjectNoteDate(notes, dateStr, cursor) ==
  LET existingIdx == findExistingDateIndex(notes, dateStr)
      text == notes
      at == clamp(cursor, 0, Len(text))
      before == SubSeq(text, 1, at)
      after == SubSeq(text, at + 1, Len(text))
      beforeHasContent == \E i \in 1..Len(before) : Ch(before, i) \notin (WS \cup {"\n"})
      beforeEndsWithNewline == EndsWith(before, "\n")
      beforeEndsWithBlankLine == EndsWith(before, "\n\n")
      prefix == IF ~beforeHasContent THEN ""
                ELSE IF beforeEndsWithBlankLine THEN ""
                ELSE IF beforeEndsWithNewline THEN "\n"
                ELSE "\n\n"
      afterTrimmed == StripLeadingNewlines(after)
      header == dateStr \o "\n" \o DefaultSeparator \o "\n"
      insert == prefix \o header \o "\n"
      nextText == before \o insert \o afterTrimmed
  IN  IF existingIdx # -1
      THEN [notes |-> notes, cursor |-> existingIdx, inserted |-> FALSE]
      ELSE [notes |-> nextText, cursor |-> Len(before) + Len(insert), inserted |-> TRUE]

\* extractEventName: the line without marker, bullet and time-of-day prefix
extractEventName(eventLine) ==
  LET skipWs(s) == From(s, FirstNonWs(s))
      cleaned == Trim(StripDash(StripX(Trim(eventLine))))
      \* /^\d{1,2}:\d{2}\s*(AM|PM)\s*-\s*/i
      timeAt(s, k) ==
        /\ Len(s) >= k + 3
        /\ \A i \in (1..k) \cup {k + 2, k + 3} : Ch(s, i) \in Digits
        /\ Ch(s, k + 1) = ":"
        /\ LET r == skipWs(From(s, k + 4))
           IN  /\ Len(r) >= 2
               /\ toUpperCase(SubSeq(r, 1, 2)) \in {"AM", "PM"}
               /\ StartsWith(skipWs(From(r, 3)), "-")
      afterTime(s, k) == skipWs(Tail(skipWs(From(skipWs(From(s, k + 4)), 3))))
      noTime(s) == IF timeAt(s, 2) THEN afterTime(s, 2)
                   ELSE IF timeAt(s, 1) THEN afterTime(s, 1)
                   ELSE s
      \* /^all day\s*-\s*/i
      noAllDay(s) == IF Len(s) >= 7 /\ toLowerCase(SubSeq(s, 1, 7)) = "all day"
                        /\ StartsWith(skipWs(From(s, 8)), "-")
                     THEN skipWs(Tail(skipWs(From(s, 8))))
                     ELSE s
  IN  Trim(noAllDay(noTime(cleaned)))

(***************************************************************************)
(* components/Visualizer.tsx: the parser behind the day view               *)
(***************************************************************************)

\* the days of the useMemo parser: a function from date to its sections, each
\* [title, type, items], an item being [text, raw, isCompleted, children]
parseDays(text) ==
  LET lines == Split(text)
      typeOf(title) == IF Includes(title, "EVENT") THEN "EVENTS"
                       ELSE IF Includes(title, "DOING") THEN "DOING"
                       ELSE IF Includes(title, "DONE") THEN "DONE"
                       ELSE IF Includes(title, "NOTE") THEN "NOTES"
                       ELSE "UNKNOWN"
      \* "Save previous day": days[currentDay] = { sections: currentSections }
      saved(st) == IF st.day = "" THEN st.days
                   ELSE [d \in DOMAIN st.days \cup {st.day} |->
                           IF d = st.day THEN st.sections \o st.cur ELSE st.days[d]]
      entry(line) ==
        LET trimmed == Trim(line)
            isCompleted == StartsWith(toLowerCase(trimmed), "x ")
        IN  [text |-> IF isCompleted THEN From(trimmed, 3) ELSE trimmed,
             raw |-> line, isCompleted |-> isCompleted, children |-> <<>>]
      step(st, line) ==
        LET trimmed == Trim(line) IN
        IF dateRegex(trimmed)
        THEN [days |-> saved(st), day |-> SubSeq(trimmed, 1, 10),
              sections |-> <<>>, cur |-> <<>>]
        ELSE IF st.day = "" THEN st
        ELSE IF headerRegex(trimmed)
        THEN [st EXCEPT !.sections = st.sections \o st.cur,
                        !.cur = <<[title |-> toUpperCase(headerLabel(trimmed)),
                                   type |-> typeOf(toUpperCase(headerLabel(trimmed))),
                                   items |-> <<>>]>>]
        ELSE IF st.cur = <<>> \/ trimmed = "" \/ StartsWith(trimmed, "==") THEN st
        ELSE IF st.cur[1].type = "EVENTS" /\ isIndented(line)
        THEN LET n == Len(st.cur[1].items)
             IN  IF n = 0 THEN st
                 ELSE [st EXCEPT !.cur[1].items[n].children = Append(@, entry(line))]
        ELSE [st EXCEPT !.cur[1].items = Append(@, entry(line))]
      run[k \in 0..Len(lines)] ==
        IF k = 0
        THEN [days |-> [d \in {} |-> <<>>], day |-> "", sections |-> <<>>, cur |-> <<>>]
        ELSE step(run[k - 1], lines[k])
  IN  saved(run[Len(lines)])

(***************************************************************************)
(* App: calendar sync                                                      *)
(***************************************************************************)

\* appendDayBlockWithSingleGap
appendDayBlockWithSingleGap(prev, block) ==
  LET N == {i \in 1..Len(prev) : Ch(prev, i) \notin (WS \cup {"\n"})}
      K == {i \in 1..Len(prev) : Ch(prev, i) # "\n"}
  IN  IF N = {} THEN block
      ELSE SubSeq(prev, 1, MaxOf(K)) \o "\n\n" \o block

\* buildDayBlock({ dateStr }): the day skeleton without items
buildDayBlock(dateStr) ==
  Join(<<dateStr, DefaultSeparator, "[EVENTS]", "", "[DOING]", "", "[DONE]", "",
         "[NOTES]", "">>)

\* mergeFetchedEventsPreservingSubtasks: the list of lines for [EVENTS]
mergeFetchedEventsPreservingSubtasks(prevContent, dateStr, fetchedTopLevelEvents) ==
  LET lines == Split(prevContent)
      n == Len(lines)
      dateIndex == firstDateIndex(lines, dateStr)
      blockEnd == FirstOr({i \in (dateIndex + 1)..n : dateRegex(Trim(lines[i]))}, n + 1)
      eventsHeader == FirstOr({i \in dateIndex..(blockEnd - 1) : Trim(lines[i]) = "[EVENTS]"}, 0)
      eventsEnd == FirstOr({i \in (eventsHeader + 1)..(blockEnd - 1) :
                              headerRegex(Trim(lines[i])) \/ dateRegex(Trim(lines[i]))},
                           blockEnd)
      childEnd(i) == FirstOr({j \in (i + 1)..(eventsEnd - 1) : ~isIndented(lines[j])},
                             eventsEnd)
      children(i) == Slice(lines, i + 1, childEnd(i) - 1)
      \* the top-level event lines that have children, in document order
      parents == SelectSeq([i \in 1..n |-> i],
                   LAMBDA i : /\ eventsHeader < i
                              /\ i < eventsEnd
                              /\ Trim(lines[i]) # ""
                              /\ ~StartsWith(Trim(lines[i]), "==")
                              /\ ~isIndented(lines[i])
                              /\ children(i) # <<>>)
      keyOf(line) == toLowerCase(extractEventName(line))
      \* childMap: a later set() of a key replaces the entry and keeps its place
      keys == Unique([k \in 1..Len(parents) |-> keyOf(lines[parents[k]])])
      entry(key) == MaxOf({parents[k] : k \in {x \in 1..Len(parents) :
                                                   keyOf(lines[parents[x]]) = key}})
      has(key) == InSeq(keys, key)
      fetchedPart[k \in 0..Len(fetchedTopLevelEvents)] ==
        IF k = 0 THEN <<>>
        ELSE LET ev == fetchedTopLevelEvents[k]
             IN  fetchedPart[k - 1] \o <<ev>>
                 \o (IF has(keyOf(ev)) THEN children(entry(keyOf(ev))) ELSE <<>>)
      usedKeys == {keyOf(fetchedTopLevelEvents[k]) : k \in 1..Len(fetchedTopLevelEvents)}
      orphanPart[k \in 0..Len(keys)] ==
        IF k = 0 THEN <<>>
        ELSE orphanPart[k - 1]
             \o (IF keys[k] \in usedKeys THEN <<>>
                 ELSE <<Trim(lines[entry(keys[k])])>> \o children(entry(keys[k])))
  IN  IF dateIndex = 0 \/ eventsHeader = 0 THEN fetchedTopLevelEvents
      ELSE fetchedPart[Len(fetchedTopLevelEvents)] \o orphanPart[Len(keys)]

\* the updater syncCalendarSilently gives to setContent
syncUpdater(prevContent, dateStr, events) ==
  LET deduped == dedupeDateBlocks(prevContent)
      withDate == IF contentHasDate(deduped, dateStr) THEN deduped
                  ELSE appendDayBlockWithSingleGap(deduped, buildDayBlock(dateStr))
      mergedEvents == mergeFetchedEventsPreservingSubtasks(withDate, dateStr, events)
  IN  updateSectionForDate(withDate, dateStr, "EVENTS", mergedEvents)

(***************************************************************************)
(* resolveInitialContent (merge logic of the cloud sync)                   *)
(***************************************************************************)

\* a resolveInitialContent that takes the remote side on equal timestamps
resolveInitialContent_remoteOnTie(localContent, localUpdatedAt, remoteContent, remoteUpdatedAt) ==
  LET hasLocal == ~(localContent = "" \/ isEmptyTemplate(localContent))
      hasRemote == ~(remoteContent = "" \/ isEmptyTemplate(remoteContent))
  IN  IF ~hasRemote /\ ~hasLocal THEN [source |-> "none", content |-> "", updatedAt |-> 0]
      ELSE IF hasRemote /\ (~hasLocal \/ remoteUpdatedAt >= localUpdatedAt)
      THEN [source |-> "remote", content |-> remoteContent, updatedAt |-> remoteUpdatedAt]
      ELSE [source |-> "local", content |-> localContent, updatedAt |-> localUpdatedAt]

resolveInitialContent(localContent, localUpdatedAt, remoteContent, remoteUpdatedAt) ==
  LET localIsEmpty == localContent = "" \/ isEmptyTemplate(localContent)
      remoteIsEmpty == remoteContent = "" \/ isEmptyTemplate(remoteContent)
      hasRemote == ~remoteIsEmpty
      hasLocal == ~localIsEmpty
  IN  IF ~hasRemote /\ ~hasLocal
      THEN [source |-> "none", content |-> "", updatedAt |-> 0]
      ELSE IF hasRemote /\ ~hasLocal
      THEN [source |-> "remote", content |-> remoteContent, updatedAt |-> remoteUpdatedAt]
      ELSE IF ~hasRemote /\ hasLocal
      THEN [source |-> "local", content |-> localContent, updatedAt |-> localUpdatedAt]
      ELSE IF remoteUpdatedAt > localUpdatedAt
      THEN [source |-> "remote", content |-> remoteContent, updatedAt |-> remoteUpdatedAt]
      ELSE [source |-> "local", content |-> localContent, updatedAt |-> localUpdatedAt]

(***************************************************************************)
(* App: handleToggleItem (the updater it gives to setContent)              *)
(***************************************************************************)

\* line.replace(/x /i, ''): the line without the first "x " or "X " in it
removeFirstXSpace(line) ==
  LET S == {i \in 1..(Len(line) - 1) : Ch(line, i) \in {"x", "X"} /\ Ch(line, i + 1) = " "}
  IN  IF S = {} THEN line
      ELSE SubSeq(line, 1, MinOf(S) - 1) \o From(line, MinOf(S) + 2)

\* a handleToggleItem that toggles the last line equal to itemRaw
handleToggleItem_lastMatch(prev, itemRaw) ==
  LET lines == Split(prev)
      S == {i \in 1..Len(lines) : lines[i] = itemRaw}
      index == IF S = {} THEN 0 ELSE MaxOf(S)
      line == lines[index]
      spaces == SubSeq(line, 1, FirstNonWs(line) - 1)
  IN  IF index = 0 THEN prev
      ELSE IF StartsWith(toLowerCase(Trim(line)), "x ")
      THEN Join([lines EXCEPT ![index] = removeFirstXSpace(line)])
      ELSE Join([lines EXCEPT ![index] = spaces \o "x " \o Trim(line)])

handleToggleItem(prev, itemRaw) ==
  LET lines == Split(prev)
      index == FirstOr({i \in 1..Len(lines) : lines[i] = itemRaw}, 0)
      line == lines[index]
      spaces == SubSeq(line, 1, FirstNonWs(line) - 1)
  IN  IF index = 0 THEN prev
      ELSE IF StartsWith(toLowerCase(Trim(line)), "x ")
      THEN Join([lines EXCEPT ![index] = removeFirstXSpace(line)])
      ELSE Join([lines EXCEPT ![index] = spaces \o "x " \o Trim(line)])

(***************************************************************************)
(* The specifications.  Each one draws a document, and the arguments of a  *)
(* call, from bounded sets and applies one function of the engine to it:   *)
(* content is the document given, op the function applied ("none" before   *)
(* the call), arg its other arguments and out what it returned.            *)
(***************************************************************************)

\* the line arrays of at most n lines over the lines of S
SeqsUpTo(S, n) == UNION {[1..k -> S] : k \in 0..n}

\* the documents made of one of the heads followed by at most n lines of pool
Docs(heads, pool, n) == {Join(h \o t) : h \in heads, t \in SeqsUpTo(pool, n)}

(***************************************************************************)
(* SpecDedupe: dedupeDateBlocks                                            *)
(***************************************************************************)

MaxDedupeLines == 3

DedupeHeads ==
  { <<>>,
    <<"2025-12-16">>,
    <<"2025-12-16", "== sep", "[DOING]", "a">>,
    <<" 2025-12-16 ", "[NOTES]", "n", "", "p">>,
    <<"pre", "2025-12-17", "lost", "[X]", "b">>,
    <<"2025-12-17 Wed", "[DOING]", "a", "2025-12-16", "[DOING]">>,
    <<"2025-12-17", "[DONE]", "b", "", "2025-12-16", "[DOING]", "b", "">> }

DedupePool == {"2025-12-16", "2025-12-17", "[DOING]", "[notes]", "", " ", "a", "b"}

InitDedupe ==
  /\ content \in Docs(DedupeHeads, DedupePool, MaxDedupeLines)
  /\ op = "none"
  /\ arg = <<>>
  /\ out = ""

Dedupe ==
  /\ op = "none"
  /\ op' = "dedupe"
  /\ out' = dedupeDateBlocks(content)
  /\ UNCHANGED <<content, arg>>

NextDedupe == Dedupe

SpecDedupe == InitDedupe /\ [][NextDedupe]_vars

\* the lines that dedupeDateBlocks reads as date headers
exactDateLines(text) ==
  {i \in 1..Len(Split(text)) : dateRegexExact(Trim(Split(text)[i]))}

\* C1: for every document d, dedupeDateBlocks(dedupeDateBlocks(d)) is the same
\* string as dedupeDateBlocks(d).
C1_DedupeIdempotent == op = "dedupe" => dedupeDateBlocks(out) = out

\* a document in which one date heads two blocks has been merged
C1_Witness ==
  /\ op = "dedupe"
  /\ out # content
  /\ \E i, j \in exactDateLines(content) :
       i # j /\ Trim(Split(content)[i]) = Trim(Split(content)[j])

isBoundaryLine(line) == isSectionHeader(line) \/ dateRegexExact(Trim(line))

dateValues(lines) ==
  LET idx == SelectSeq([i \in 1..Len(lines) |-> i],
                       LAMBDA i : dateRegexExact(Trim(lines[i])))
  IN  [k \in 1..Len(idx) |-> Trim(lines[idx[k]])]

\* the section headers, in upper case, found under the headers of date d, in
\* document order
headersUnder(lines, d) ==
  LET owner(i) == LET D == {k \in 1..i : dateRegexExact(Trim(lines[k]))}
                  IN  IF D = {} THEN "" ELSE Trim(lines[MaxOf(D)])
      idx == SelectSeq([i \in 1..Len(lines) |-> i],
                       LAMBDA i : headerRegex(Trim(lines[i])) /\ owner(i) = d)
  IN  [k \in 1..Len(idx) |-> toUpperCase(Trim(lines[idx[k]]))]

\* C16: when the input has a date header, the date headers of the output are
\* the distinct date values of the input, each once, in the order first met;
\* under each date the section headers are those met under that date in the
\* input, each once: EVENTS, DOING, BACKLOG, DONE, NOTES in that order, then
\* the other labels in the order first met.
C16_CanonicalDayAndSectionOrder ==
  (op = "dedupe" /\ exactDateLines(content) # {}) =>
    LET L == Split(content)
        O == Split(out)
        std == <<"[EVENTS]", "[DOING]", "[BACKLOG]", "[DONE]", "[NOTES]">>
    IN  /\ dateValues(O) = Unique(dateValues(L))
        /\ \A k \in 1..Len(dateValues(O)) :
             LET d == dateValues(O)[k]
                 seen == Unique(headersUnder(L, d))
             IN  headersUnder(O, d) =
                   SelectSeq(std, LAMBDA h : InSeq(seen, h))
                   \o SelectSeq(seen, LAMBDA h : ~InSeq(std, h))

\* two dates, one of them heading two blocks, and a day whose sections were
\* met in another order than the one they are written in
C16_Witness ==
  LET L == Split(content)
      dv == dateValues(L)
  IN  /\ op = "dedupe"
      /\ Len(Unique(dv)) >= 2
      /\ Len(dv) > Len(Unique(dv))
      /\ \E k \in 1..Len(dv) :
           /\ Len(Unique(headersUnder(L, dv[k]))) >= 2
           /\ headersUnder(Split(out), dv[k]) # Unique(headersUnder(L, dv[k]))

\* C17: in the rebuilt output every section header but the first of its day,
\* and every date header but the first of the document, has exactly one blank
\* line in front of it: the line before it is empty and the line before that
\* is not blank. The first section header of a day stands directly under the
\* separator.
C17_OneBlankBetweenSectionsAndDays ==
  (op = "dedupe" /\ exactDateLines(content) # {}) =>
    LET O == Split(out)
        firstOfDay(i) == i >= 3 /\ dateRegexExact(O[i - 2])
        oneBlankBefore(i) == /\ i >= 3
                             /\ O[i - 1] = ""
                             /\ ~isBlank(O[i - 2])
    IN  \A i \in 2..Len(O) :
          /\ dateRegexExact(Trim(O[i])) => oneBlankBefore(i)
          /\ headerRegex(Trim(O[i])) =>
               IF firstOfDay(i) THEN ~isBlank(O[i - 1]) ELSE oneBlankBefore(i)

\* an input without a single blank line, rebuilt into two days of which one
\* has two sections
C17_Witness ==
  LET L == Split(content)
      O == Split(out)
  IN  /\ op = "dedupe"
      /\ \A i \in 1..Len(L) : ~isBlank(L[i])
      /\ Len(dateValues(O)) >= 2
      /\ \E k \in 1..Len(dateValues(O)) : Len(headersUnder(O, dateValues(O)[k])) >= 2

\* C18: every non-blank line of the input, other than a date header and the
\* separator directly under one, is found in the output under the same date
\* (a section header in its upper-case form); a line above the first date
\* header is found in the output as well.
C18_NoContentLost ==
  op = "dedupe" =>
    LET L == Split(content)
        O == Split(out)
        isDate(lines, i) == dateRegexExact(Trim(lines[i]))
        owner(lines, i) == LET D == {k \in 1..i : isDate(lines, k)}
                           IN  IF D = {} THEN "" ELSE Trim(lines[MaxOf(D)])
        isSep(i) == i > 1 /\ isDate(L, i - 1) /\ StartsWith(Trim(L[i]), "==")
        same(a, b) == b = a \/ (headerRegex(Trim(a)) /\ b = toUpperCase(Trim(a)))
    IN  \A i \in 1..Len(L) :
          (~isBlank(L[i]) /\ ~isDate(L, i) /\ ~isSep(i)) =>
            \E j \in 1..Len(O) :
              /\ same(L[i], O[j])
              /\ owner(L, i) \in {"", owner(O, j)}

(***************************************************************************)
(* SpecUpdate: updateSectionForDate                                        *)
(***************************************************************************)

MaxUpdateLines == 3

UpdateHeads ==
  { <<>>,
    <<"2025-12-19">>,
    <<"2025-12-19", "====", "[EVENTS]", "old", "">>,
    <<"2025-12-20", "[EVENTS]", "", "2025-12-19">> }

UpdatePool == {"2025-12-19", "====", "[EVENTS]", "[DOING]", "", "old"}

UpdateDates == {"2025-12-19", "2025-12-20"}

UpdateSections == {"EVENTS", "DOING"}

\* lists of non-blank lines
UpdateItems == {<<>>, <<"e">>, <<"e", "  - c">>}

InitUpdate ==
  /\ content \in Docs(UpdateHeads, UpdatePool, MaxUpdateLines)
  /\ op = "none"
  /\ arg = <<>>
  /\ out = ""

Update ==
  /\ op = "none"
  /\ \E date \in UpdateDates, sectionName \in UpdateSections, newItems \in UpdateItems :
       /\ arg' = [date |-> date, sectionName |-> sectionName, newItems |-> newItems]
       /\ out' = updateSectionForDate(content, date, sectionName, newItems)
  /\ op' = "update"
  /\ UNCHANGED content

NextUpdate == Update

SpecUpdate == InitUpdate /\ [][NextUpdate]_vars

\* C4, as claimed: for a document without three consecutive newlines and a list
\* of non-blank lines, the output of updateSectionForDate has no three
\* consecutive newlines, whether the date is absent, the section is absent or
\* the section is present.
C4_UpdateNoTripleNewline ==
  (op = "update" /\ ~Includes(content, "\n\n\n")) => ~Includes(out, "\n\n\n")

\* the section [name] of the first block of the date, in a line array
sectionOf(lines, date, name) ==
  LET b == findDateBlock(lines, date)
  IN  IF b.dateIndex = 0 THEN [headerIndex |-> 0, endIndex |-> 0]
      ELSE findSectionWithinBlock(lines, b.dateIndex, b.blockEnd, "[" \o name \o "]")

\* C5, as claimed: when the replaced section is followed, after a single blank
\* line, by a section header or a date header, the output still has a blank
\* line between the new body and that header.
C5_SeparatorKept ==
  op = "update" =>
    LET L == Split(content)
        O == Split(out)
        s == sectionOf(L, arg.date, arg.sectionName)
        t == sectionOf(O, arg.date, arg.sectionName)
    IN  ( /\ s.headerIndex # 0
          /\ s.endIndex <= Len(L)
          /\ s.endIndex - 1 > s.headerIndex
          /\ L[s.endIndex - 1] = ""
          /\ (s.endIndex - 2 = s.headerIndex \/ ~isBlank(L[s.endIndex - 2])) )
        => ( /\ t.headerIndex # 0
             /\ t.endIndex <= Len(O)
             /\ t.endIndex - 1 > t.headerIndex
             /\ isBlank(O[t.endIndex - 1]) )

(***************************************************************************)
(* SpecCarry: getCarryOverDoingItems                                       *)
(***************************************************************************)

MaxCarryLines == 3

CarryHeads ==
  { <<>>,
    <<"2025-12-17", "[DOING]", "- later", "X done ", "2025-12-15", "[DOING]", "- old">>,
    <<"2025-12-16", "== s", "[DOING]", "\t- a  #t ", "== x">>,
    <<"2025-12-15 Mon", "[DOING]", "- old", "[DONE]">> }

CarryPool == {"2025-12-16", "[DOING]", "[DONE]", "- a #t", "x b", "  c ", ""}

CarryTargets == {"2025-12-16", "2025-12-17", "2025-12-18"}

InitCarry ==
  /\ content \in Docs(CarryHeads, CarryPool, MaxCarryLines)
  /\ op = "none"
  /\ arg = <<>>
  /\ out = <<>>

Carry ==
  /\ op = "none"
  /\ \E toDateStr \in CarryTargets :
       /\ arg' = [toDateStr |-> toDateStr]
       /\ out' = getCarryOverDoingItems(content, toDateStr)
  /\ op' = "carry"
  /\ UNCHANGED content

NextCarry == Carry

SpecCarry == InitCarry /\ [][NextCarry]_vars

\* the date tokens that start a line of the document
datesPresent(text) ==
  {SubSeq(Split(text)[i], 1, 10) : i \in {j \in 1..Len(Split(text)) : dateRegex(Split(text)[j])}}

\* date a is strictly before date b, compared digit by digit
dateBefore(a, b) ==
  \E k \in 1..10 : /\ SubSeq(a, 1, k - 1) = SubSeq(b, 1, k - 1)
                   /\ CharCode(Ch(a, k)) < CharCode(Ch(b, k))

\* the dates present that are strictly before the target
priorDates(text, target) == {d \in datesPresent(text) : dateBefore(d, target)}

\* the greatest of a non-empty set of dates
greatestDate(S) == CHOOSE d \in S : \A e \in S : e = d \/ dateBefore(e, d)

\* the lines of the first block of the date that lie in its [DOING] section and
\* are neither blank, nor separators, nor completed
unfinishedDoing(lines, date) ==
  LET s == sectionOf(lines, date, "DOING")
  IN  IF s.headerIndex = 0 THEN {}
      ELSE {i \in (s.headerIndex + 1)..(s.endIndex - 1) :
              /\ Trim(lines[i]) # ""
              /\ ~StartsWith(Trim(lines[i]), "==")
              /\ ~StartsWith(toLowerCase(Trim(lines[i])), "x ")}

\* the k-th smallest element of a set of numbers
RECURSIVE Nth(_, _)
Nth(S, k) == IF k = 1 THEN MinOf(S) ELSE Nth(S \ {MinOf(S)}, k - 1)

\* C7: the items come, in document order, from the unfinished lines of the
\* [DOING] section of the block of the greatest date present that is strictly
\* before the target, and from no other block; without such a date the list is
\* empty.
C7_MostRecentPriorDate ==
  op = "carry" =>
    LET L == Split(content)
        P == priorDates(content, arg.toDateStr)
    IN  IF P = {} THEN out = <<>>
        ELSE LET U == unfinishedDoing(L, greatestDate(P))
             IN  /\ Len(out) = Cardinality(U)
                 /\ \A k \in 1..Len(out) : out[k] = Trim(L[Nth(U, k)])

\* the document has an older date, the most recent prior date and the target's
\* own block, each with unfinished DOING lines, and items were returned
C7_Witness ==
  /\ op = "carry"
  /\ Cardinality(priorDates(content, arg.toDateStr)) >= 2
  /\ arg.toDateStr \in datesPresent(content)
  /\ \A d \in priorDates(content, arg.toDateStr) \cup {arg.toDateStr} :
       unfinishedDoing(Split(content), d) # {}
  /\ out # <<>>

\* C8, as claimed: every returned string is byte-equal to the unfinished DOING
\* line it was taken from, indentation and trailing whitespace included.
C8_ByteEqualLines ==
  op = "carry" =>
    LET L == Split(content)
        P == priorDates(content, arg.toDateStr)
    IN  \A k \in 1..Len(out) :
          /\ P # {}
          /\ \E i \in unfinishedDoing(L, greatestDate(P)) : out[k] = L[i]

\* C8, amended: every returned string is the trimmed text of an unfinished
\* DOING line of the source block: bullet prefix, inner spacing and trailing
\* tags as written, leading indentation and trailing whitespace removed.
C8_TrimmedLines ==
  op = "carry" =>
    LET L == Split(content)
        P == priorDates(content, arg.toDateStr)
    IN  \A k \in 1..Len(out) :
          /\ P # {}
          /\ out[k] = Trim(out[k])
          /\ \E i \in unfinishedDoing(L, greatestDate(P)) : out[k] = Trim(L[i])

\* an indented line with a bullet, tags and trailing whitespace was carried over
C8_Witness ==
  /\ op = "carry"
  /\ \E k \in 1..Len(out) :
       /\ out[k] = "- a  #t"
       /\ \E i \in 1..Len(Split(content)) : Split(content)[i] = "\t- a  #t "
       /\ \A i \in 1..Len(Split(content)) : Split(content)[i] # out[k]

(***************************************************************************)
(* SpecToggle: handleToggleItem                                            *)
(***************************************************************************)

MaxToggleLines == 3

ToggleHeads == { <<>>, <<"2025-12-16", "[DOING]", "x b">> }

TogglePool == {"- a", "  - a ", "x b", "\tX  b", "", "a x c"}

\* the raw lines the visualizer hands back, and one the document never holds
ToggleItems == (TogglePool \ {""}) \cup {"- gone"}

InitToggle ==
  /\ content \in Docs(ToggleHeads, TogglePool, MaxToggleLines)
  /\ op = "none"
  /\ arg = <<>>
  /\ out = ""

Toggle ==
  /\ op = "none"
  /\ \E itemRaw \in ToggleItems :
       /\ arg' = [itemRaw |-> itemRaw]
       /\ out' = handleToggleItem(content, itemRaw)
  /\ op' = "toggle"
  /\ UNCHANGED content

NextToggle == Toggle

SpecToggle == InitToggle /\ [][NextToggle]_vars

\* the leading whitespace of a line
leadingWs(line) == SubSeq(line, 1, FirstNonWs(line) - 1)

\* the lines of the document that are byte-equal to the raw line
equalLines(text, rawLine) == {i \in 1..Len(Split(text)) : Split(text)[i] = rawLine}

MaxMutateLines == 3

MutateHeads ==
  { <<>>,
    <<"2025-12-16", "====", "[EVENTS]", "ev", "  - a", "\tx  A">>,
    <<"2025-12-17", "[DOING]", "- a", "2025-12-16">>,
    <<" 2025-12-16 Tue", "[DONE]", "x o", "[DOING]", "x  a  #t">> }

MutatePool == {"2025-12-16", "[DOING]", "[DONE]", "[EVENTS]", "- a #t", "  - A", ""}

MutateDates == {"2025-12-16", "2025-12-17"}

MoveLines == {"- a #t", "- a"}

SubtaskLines == {"  - a", "- a #t"}

EventLines == {"ev", "- a #t"}

TaskNames == {"new", "n #t"}

InitMutate ==
  /\ content \in Docs(MutateHeads, MutatePool, MaxMutateLines)
  /\ op = "none"
  /\ arg = <<>>
  /\ out = ""

Move ==
  /\ op = "none"
  /\ \E dateStr \in MutateDates, doingRawLine \in MoveLines :
       /\ arg' = [dateStr |-> dateStr, rawLine |-> doingRawLine]
       /\ out' = moveDoingItemToDone(content, dateStr, doingRawLine)
  /\ op' = "move"
  /\ UNCHANGED content

DeleteSubtask ==
  /\ op = "none"
  /\ \E dateStr \in MutateDates, subtaskRawLine \in SubtaskLines :
       /\ arg' = [dateStr |-> dateStr, rawLine |-> subtaskRawLine]
       /\ out' = deleteEventSubtask(content, dateStr, subtaskRawLine)
  /\ op' = "delete"
  /\ UNCHANGED content

AddTask ==
  /\ op = "none"
  /\ \E dateStr \in MutateDates, eventRawLine \in EventLines, taskName \in TaskNames :
       /\ arg' = [dateStr |-> dateStr, rawLine |-> eventRawLine, taskName |-> taskName]
       /\ out' = addEventTaskToContent(content, dateStr, eventRawLine, taskName)
  /\ op' = "add"
  /\ UNCHANGED content

DeleteEvent ==
  /\ op = "none"
  /\ \E dateStr \in MutateDates, eventRawLine \in EventLines :
       /\ arg' = [dateStr |-> dateStr, rawLine |-> eventRawLine]
       /\ out' = deleteEvent(content, dateStr, eventRawLine)
  /\ op' = "deleteEvent"
  /\ UNCHANGED content

NextMutate == Move \/ DeleteSubtask \/ AddTask \/ DeleteEvent

SpecMutate == InitMutate /\ [][NextMutate]_vars

\* the line matches the raw line exactly, trimmed or normalized
matchesRaw(line, rawLine) ==
  \/ line = rawLine
  \/ Trim(line) = Trim(rawLine)
  \/ normalizeForMatch(line) = normalizeForMatch(rawLine)

\* the lines of section [name] of the first block of the date that match the raw line
matchesInSection(lines, date, name, rawLine) ==
  LET s == sectionOf(lines, date, name)
  IN  IF s.headerIndex = 0 THEN {}
      ELSE {i \in (s.headerIndex + 1)..(s.endIndex - 1) :
              lines[i] # "" /\ matchesRaw(lines[i], rawLine)}

\* the lines of the [EVENTS] section of any block of the date that match the raw line
eventMatchesInBlocks(lines, date, rawLine) ==
  LET blocks == dateBlocksFrom(lines, date, 1)
  IN  {i \in 1..Len(lines) :
         \E k \in 1..Len(blocks) :
           LET e == findSectionWithinBlock(lines, blocks[k].start, blocks[k].end, "[EVENTS]")
           IN  /\ e.headerIndex # 0
               /\ i > e.headerIndex
               /\ i < e.endIndex
               /\ \/ lines[i] = rawLine
                  \/ Trim(lines[i]) = Trim(rawLine)
                  \/ normalizeEventLineForMatch(lines[i]) = normalizeEventLineForMatch(rawLine)}

\* C2, as claimed: each of the three mutators returns its input unchanged when
\* the date block, the section it needs ([DOING] for the move, [EVENTS] for the
\* subtask deletion and for the attachment) or a matching line in that section
\* cannot be found.
C2_NoOpWhenTargetMissing ==
  LET L == Split(content)
  IN  /\ (op = "move" /\ matchesInSection(L, arg.dateStr, "DOING", arg.rawLine) = {})
           => out = content
      /\ (op = "delete"
          /\ {i \in matchesInSection(L, arg.dateStr, "EVENTS", arg.rawLine) :
                isIndented(L[i])} = {})
           => out = content
      /\ (op = "add" /\ eventMatchesInBlocks(L, arg.dateStr, arg.rawLine) = {})
           => out = content

\* the text of a line without its surrounding whitespace and leading markers
cleanedText(line) == Trim(StripDash(StripX(Trim(line))))

\* the lines of section [name] of the first block of the date, header excluded
sectionBody(lines, date, name) ==
  LET s == sectionOf(lines, date, name)
  IN  SubSeq(lines, s.headerIndex + 1, s.endIndex - 1)

\* C9: when the target is found in [DOING], the [DOING] section loses its first
\* matching line and nothing else; the line right after the block's [DONE]
\* header is "x " and the removed line's text without leading markers, its
\* trailing #tags kept; and when the block had no [DONE], a [DONE] section
\* holding only that line starts where the [DOING] section ends.
C9_MoveFirstMatchToDone ==
  LET L == Split(content)
      M == matchesInSection(L, arg.dateStr, "DOING", arg.rawLine)
  IN  (op = "move" /\ M # {}) =>
        LET O == Split(out)
            removed == L[MinOf(M)]
            doingIn == sectionOf(L, arg.dateStr, "DOING")
            doingOut == sectionOf(O, arg.dateStr, "DOING")
            doneIn == sectionOf(L, arg.dateStr, "DONE")
            doneOut == sectionOf(O, arg.dateStr, "DONE")
        IN  /\ doingOut.headerIndex # 0
            /\ sectionBody(O, arg.dateStr, "DOING")
                 = RemoveAt(sectionBody(L, arg.dateStr, "DOING"),
                            MinOf(M) - doingIn.headerIndex)
            /\ doneOut.headerIndex # 0
            /\ doneOut.headerIndex < Len(O)
            /\ O[doneOut.headerIndex + 1] = "x " \o cleanedText(removed)
            /\ extractTagsFromLine(O[doneOut.headerIndex + 1]).tags
                 = extractTagsFromLine(removed).tags
            /\ doneIn.headerIndex = 0 =>
                 /\ doneOut.headerIndex = doingOut.endIndex
                 /\ sectionBody(O, arg.dateStr, "DONE") = <<"x " \o cleanedText(removed), "">>

\* two DOING lines match, the block has no [DONE], and the move was made
C9_Witness ==
  /\ op = "move"
  /\ Cardinality(matchesInSection(Split(content), arg.dateStr, "DOING", arg.rawLine)) >= 2
  /\ sectionOf(Split(content), arg.dateStr, "DONE").headerIndex = 0
  /\ sectionOf(Split(out), arg.dateStr, "DONE").headerIndex # 0
  /\ extractTagsFromLine(arg.rawLine).tags # <<>>

\* the text by which a moved line is looked up among the event children: its
\* cleaned text without trailing #tags
tagStrippedText(line) ==
  LET base == extractTagsFromLine(cleanedText(line)).baseText
  IN  IF base # "" THEN base ELSE cleanedText(line)

\* the indented lines of an [EVENTS] body whose text is normalized-equal to the text
matchingChildren(body, text) ==
  {k \in 1..Len(body) :
     /\ isIndented(body[k])
     /\ cleanedText(body[k]) # ""
     /\ normalizeForMatch(cleanedText(body[k])) = normalizeForMatch(text)}

\* C10: when the moved line's tag-stripped text is normalized-equal to the text
\* of indented children of the block's [EVENTS] section, the first such child
\* becomes its indentation, "x " and its text, and every other line of the
\* [EVENTS] section is as before.
C10_EventChildCompleted ==
  LET L == Split(content)
      M == matchesInSection(L, arg.dateStr, "DOING", arg.rawLine)
  IN  (op = "move" /\ M # {} /\ sectionOf(L, arg.dateStr, "EVENTS").headerIndex # 0) =>
        LET O == Split(out)
            bodyIn == sectionBody(L, arg.dateStr, "EVENTS")
            K == matchingChildren(bodyIn, tagStrippedText(L[MinOf(M)]))
        IN  /\ sectionOf(O, arg.dateStr, "EVENTS").headerIndex # 0
            /\ Len(sectionBody(O, arg.dateStr, "EVENTS")) = Len(bodyIn)
            /\ \A k \in 1..Len(bodyIn) :
                 sectionBody(O, arg.dateStr, "EVENTS")[k]
                   = IF K # {} /\ k = MinOf(K)
                     THEN leadingWs(bodyIn[k]) \o "x " \o cleanedText(bodyIn[k])
                     ELSE bodyIn[k]

\* a moved line with a tag had two matching children: the first is now
\* completed, the second is as it was
C10_Witness ==
  LET L == Split(content)
      M == matchesInSection(L, arg.dateStr, "DOING", arg.rawLine)
  IN  /\ op = "move"
      /\ M # {}
      /\ sectionOf(L, arg.dateStr, "EVENTS").headerIndex # 0
      /\ extractTagsFromLine(L[MinOf(M)]).tags # <<>>
      /\ LET bodyIn == sectionBody(L, arg.dateStr, "EVENTS")
             K == matchingChildren(bodyIn, tagStrippedText(L[MinOf(M)]))
         IN  /\ Cardinality(K) >= 2
             /\ sectionBody(Split(out), arg.dateStr, "EVENTS")[MinOf(K)] # bodyIn[MinOf(K)]

\* the indented lines of the [EVENTS] section of the first block of the date
\* that match the raw line
matchingSubtasks(lines, date, rawLine) ==
  {i \in matchesInSection(lines, date, "EVENTS", rawLine) : isIndented(lines[i])}

\* the [DOING] lines of the first block of the date whose marker-stripped and
\* tag-stripped text is normalized-equal to the text
doingMirrors(lines, date, text) ==
  LET s == sectionOf(lines, date, "DOING")
  IN  IF s.headerIndex = 0 THEN {}
      ELSE {i \in (s.headerIndex + 1)..(s.endIndex - 1) :
              /\ Trim(lines[i]) # ""
              /\ ~StartsWith(Trim(lines[i]), "==")
              /\ normalizeForMatch(tagStrippedText(lines[i])) = normalizeForMatch(text)}

\* C11: deleteEventSubtask removes the first indented line of the block's
\* [EVENTS] section that matches the raw line and, of the [DOING] lines of the
\* same block whose marker- and tag-stripped text is normalized-equal to the
\* removed child's text, the first one; all other lines stay, in their order;
\* a top-level event line is never removed.
C11_DeleteSubtaskFrame ==
  op = "delete" =>
    LET L == Split(content)
        H == matchingSubtasks(L, arg.dateStr, arg.rawLine)
    IN  IF H = {} THEN out = content
        ELSE LET L1 == RemoveAt(L, MinOf(H))
                 D == doingMirrors(L1, arg.dateStr, cleanedText(L[MinOf(H)]))
             IN  out = Join(IF D = {} THEN L1 ELSE RemoveAt(L1, MinOf(D)))

\* a child was removed together with the first of two DOING mirrors
C11_Witness ==
  LET L == Split(content)
      H == matchingSubtasks(L, arg.dateStr, arg.rawLine)
  IN  /\ op = "delete"
      /\ H # {}
      /\ Cardinality(doingMirrors(L, arg.dateStr, cleanedText(L[MinOf(H)]))) >= 2
      /\ Len(Split(out)) = Len(L) - 2

\* the top-level lines of the [EVENTS] section of the first block of the date
\* that match the raw line
matchingEvents(lines, date, rawLine) ==
  {i \in matchesInSection(lines, date, "EVENTS", rawLine) : ~isIndented(lines[i])}

\* the number of indented lines that directly follow line e inside its section
childRun(lines, e, endIndex) ==
  Cardinality({k \in (e + 1)..(endIndex - 1) : \A j \in (e + 1)..k : isIndented(lines[j])})

\* C12: deleteEvent removes the first matching top-level line of the block's
\* [EVENTS] section and the run of indented lines directly below it, and
\* nothing else; without a matching event the document is returned unchanged.
C12_DeleteEventWithChildren ==
  op = "deleteEvent" =>
    LET L == Split(content)
        E == matchingEvents(L, arg.dateStr, arg.rawLine)
    IN  IF E = {} THEN out = content
        ELSE LET e == MinOf(E)
                 n == childRun(L, e, sectionOf(L, arg.dateStr, "EVENTS").endIndex)
             IN  out = Join(SubSeq(L, 1, e - 1) \o SubSeq(L, e + n + 1, Len(L)))

\* an event with two children was deleted and a later sibling event with its
\* own child is still there
C12_Witness ==
  LET L == Split(content)
      E == matchingEvents(L, arg.dateStr, arg.rawLine)
      s == sectionOf(L, arg.dateStr, "EVENTS")
  IN  /\ op = "deleteEvent"
      /\ E # {}
      /\ childRun(L, MinOf(E), s.endIndex) = 2
      /\ MinOf(E) + 4 < s.endIndex
      /\ ~isIndented(L[MinOf(E) + 3])
      /\ Trim(L[MinOf(E) + 3]) # ""
      /\ isIndented(L[MinOf(E) + 4])
      /\ Len(Split(out)) = Len(L) - 3

\* the line matches the event raw line exactly, trimmed or normalized
matchesEvent(line, rawLine) ==
  \/ line = rawLine
  \/ Trim(line) = Trim(rawLine)
  \/ normalizeEventLineForMatch(line) = normalizeEventLineForMatch(rawLine)

\* the lines of one block that match the event raw line
blockMatches(lines, block, rawLine) ==
  {i \in block.start..(block.end - 1) : matchesEvent(lines[i], rawLine)}

\* the blocks of the date, in document order, that hold a matching line
blocksWithMatch(lines, date, rawLine) ==
  LET blocks == dateBlocksFrom(lines, date, 1)
  IN  {k \in 1..Len(blocks) : blockMatches(lines, blocks[k], rawLine) # {}}

\* C13: with the date in one or several blocks, the first block that holds a
\* line matching the event is the one edited: the child line "  - task" goes
\* right below the first matching line of that block, and "- task", without a
\* tag, becomes the first line under that block's [DOING] header (a header
\* created inside the block when it had none); every other line of the
\* document, the other blocks of the date included, is as before.
C13_FirstMatchingBlockEdited ==
  op = "add" =>
    LET L == Split(content)
        blocks == dateBlocksFrom(L, arg.dateStr, 1)
        K == blocksWithMatch(L, arg.dateStr, arg.rawLine)
    IN  IF K = {} THEN out = content
        ELSE LET b == blocks[MinOf(K)]
                 e == MinOf(blockMatches(L, b, arg.rawLine))
                 L1 == InsertAt(L, e + 1, <<"  - " \o arg.taskName>>)
                 doing == {i \in b.start..b.end : Trim(L1[i]) = "[DOING]"}
             IN  IF doing # {}
                 THEN out = Join(InsertAt(L1, MinOf(doing) + 1, <<"- " \o arg.taskName>>))
                 ELSE \E p \in (b.start + 1)..(b.end + 1) :
                        out = Join(InsertAt(L1, p, <<"[DOING]", "- " \o arg.taskName, "">>))

\* the date heads two blocks, the first has a [DOING] section but no matching
\* line, and the task was attached in the second
C13_Witness ==
  LET L == Split(content)
      blocks == dateBlocksFrom(L, arg.dateStr, 1)
      K == blocksWithMatch(L, arg.dateStr, arg.rawLine)
  IN  /\ op = "add"
      /\ Len(blocks) >= 2
      /\ K # {}
      /\ MinOf(K) >= 2
      /\ \E i \in blocks[1].start..(blocks[1].end - 1) : Trim(L[i]) = "[DOING]"
      /\ out # content

\* C14: the line the event search settles on is a top-level (non-indented)
\* line inside the [EVENTS] section of a block of the date: never the date or
\* separator line, never a line of another section, never an indented child.
C14_EventIsTopLevelEventsLine ==
  op = "add" =>
    LET L == Split(content)
        blocks == dateBlocksFrom(L, arg.dateStr, 1)
        e == findEventLine(L, blocks, arg.rawLine)
        inEvents(i) ==
          \E k \in 1..Len(blocks) :
            \E h \in blocks[k].start..(blocks[k].end - 1) :
              /\ Trim(L[h]) = "[EVENTS]"
              /\ h < i
              /\ i < blocks[k].end
              /\ \A j \in (h + 1)..i : ~isSectionHeader(L[j])
    IN  e # 0 => (~isIndented(L[e]) /\ inEvents(e))

\* C15: when no line of the document starts with the date, the output is a new
\* block, one blank line, then the existing content; the new block has each of
\* [EVENTS], [DOING], [DONE] and [NOTES] exactly once, the items as the body of
\* the named section and nothing in the other three.
C15_NewBlockHasFourSections ==
  (op = "update" /\ \A i \in 1..Len(Split(content)) :
                      ~StartsWith(Trim(Split(content)[i]), arg.date)) =>
    LET O == Split(out)
        existing == StripLeadingNewlines(content)
        B == Len(O) - Len(Split(existing)) - 1
        at(h) == {i \in 1..B : O[i] = h}
        body(h) == LET i == MinOf(at(h))
                       stop == FirstOr({j \in (i + 1)..B : isSectionHeader(O[j])}, B + 1)
                   IN  SelectSeq(Slice(O, i + 1, stop - 1), LAMBDA l : l # "")
    IN  /\ B >= 1
        /\ O[1] = arg.date
        /\ O[B + 1] = ""
        /\ Join(Slice(O, B + 2, Len(O))) = existing
        /\ \A n \in {"EVENTS", "DOING", "DONE", "NOTES"} :
             /\ Cardinality(at("[" \o n \o "]")) = 1
             /\ body("[" \o n \o "]") = (IF n = arg.sectionName THEN arg.newItems ELSE <<>>)

(***************************************************************************)
(* SpecDates: extractDatesFromContent and contentHasDate                   *)
(***************************************************************************)

MaxDateLines == 3

DateHeads ==
  { <<>>,
    <<"2025-12-16", "2026-01-02", "2025-12-17 Wed">> }

DatePool ==
  {"2025-12-16", "2025-12-17", "2026-01-02 Fri", " 2025-12-18", "[NOTES]", "x 2025-12-16", ""}

DateArgs == {"2025-12-16", "2025-12-17", "2025-12-18", "2026-01-02"}

InitDates ==
  /\ content \in Docs(DateHeads, DatePool, MaxDateLines)
  /\ op = "none"
  /\ arg = <<>>
  /\ out = <<>>

ExtractDates ==
  /\ op = "none"
  /\ op' = "extract"
  /\ out' = extractDatesFromContent(content)
  /\ UNCHANGED <<content, arg>>

HasDate ==
  /\ op = "none"
  /\ \E d \in DateArgs :
       /\ arg' = [dateStr |-> d]
       /\ out' = contentHasDate(content, d)
  /\ op' = "has"
  /\ UNCHANGED content

NextDates == ExtractDates \/ HasDate

SpecDates == InitDates /\ [][NextDates]_vars

\* C19: the list of extractDatesFromContent is strictly descending (hence
\* without repetition) and its elements are exactly the date tokens that
\* start a line of the document; contentHasDate(d, date) is true exactly when
\* date is in that list.
C19_DatesUniqueSortedAndFound ==
  LET L == Split(content)
      tokens == {SubSeq(L[i], 1, 10) : i \in {k \in 1..Len(L) : dateRegex(L[k])}}
  IN  /\ op = "extract" =>
           /\ {out[k] : k \in 1..Len(out)} = tokens
           /\ \A k \in 1..(Len(out) - 1) : StrLess(out[k + 1], out[k])
      /\ op = "has" =>
           (out <=> arg.dateStr \in
                      {extractDatesFromContent(content)[k] :
                         k \in 1..Len(extractDatesFromContent(content))})

\* the date asked for is found on a later line of a document that holds
\* three dates, one of them twice
C19_Witness ==
  /\ op = "has"
  /\ out = TRUE
  /\ ~StartsWith(content, arg.dateStr)
  /\ Len(extractDatesFromContent(content)) >= 3
  /\ Len(dateMatches(content)) > Len(extractDatesFromContent(content))

(***************************************************************************)
(* SpecNoteDate: insertProjectNoteDate                                     *)
(***************************************************************************)

MaxNoteLines == 3

NoteHeads ==
  { <<>>,
    <<"Some intro", "">>,
    <<"2025-12-18", "==", "", "Did stuff", "">> }

NotePool == {"2025-12-19", "x", "", " "}

NoteDates == {"2025-12-18", "2025-12-19"}

InitNoteDate ==
  /\ content \in Docs(NoteHeads, NotePool, MaxNoteLines)
  /\ op = "none"
  /\ arg = <<>>
  /\ out = <<>>

InsertNoteDate ==
  /\ op = "none"
  /\ \E d \in NoteDates, c \in -1..(Len(content) + 1) :
       /\ arg' = [dateStr |-> d, cursor |-> c]
       /\ out' = insertProjectNoteDate(content, d, c)
  /\ op' = "insert"
  /\ UNCHANGED content

NextNoteDate == InsertNoteDate

SpecNoteDate == InitNoteDate /\ [][NextNoteDate]_vars

\* C20: when a line of the notes is the date, the call returns the notes as
\* they are, inserted = FALSE and the cursor at that line; and after a call
\* that inserted a header, the notes have at most one header line for the
\* date and a second call with the same date, at any cursor, returns those
\* notes as they are with inserted = FALSE.
C20_NoSecondHeader ==
  op = "insert" =>
    LET L == Split(content)
        O == Split(out.notes)
    IN  /\ (\E i \in 1..Len(L) : L[i] = arg.dateStr) =>
             /\ out.notes = content
             /\ out.inserted = FALSE
             /\ out.cursor >= 0
             /\ StartsWith(From(content, out.cursor + 1), arg.dateStr)
        /\ out.inserted =>
             /\ Cardinality({i \in 1..Len(O) : Trim(O[i]) = arg.dateStr}) <= 1
             /\ \A c \in 0..Len(out.notes) :
                  LET again == insertProjectNoteDate(out.notes, arg.dateStr, c)
                  IN  again.inserted = FALSE /\ again.notes = out.notes

(***************************************************************************)
(* SpecResolve: resolveInitialContent                                      *)
(***************************************************************************)

MaxStamp == 2

\* the notes a side can hold: nothing, blank text, empty templates, plain
\* text, templates with an item, and two dated blocks without items
ResolveContents ==
  { "", " \n", "local notes", "remote notes",
    "2025-01-01\n========================================\n[EVENTS]\n\n[DOING]\n\n[DONE]\n\n[NOTES]\n",
    "2025-01-01\n[notes]\n== x\n",
    "2025-01-01\n========================================\n[NOTES]\nsome note\n",
    "2025-01-01\n[EVENTS]\n\n2025-01-02\n[EVENTS]\n" }

InitResolve ==
  /\ content \in ResolveContents
  /\ op = "none"
  /\ arg = <<>>
  /\ out = <<>>

\* content is the local side
Resolve ==
  /\ op = "none"
  /\ \E r \in ResolveContents, lt \in 0..MaxStamp, rt \in 0..MaxStamp :
       /\ arg' = [remoteContent |-> r, localUpdatedAt |-> lt, remoteUpdatedAt |-> rt]
       /\ out' = resolveInitialContent(content, lt, r, rt)
  /\ op' = "resolve"
  /\ UNCHANGED content

SpecResolve == InitResolve /\ [][Resolve]_vars

\* C21: with "real content" read as neither empty nor an empty template, the
\* source is none when no side has real content, the one side that has it
\* when exactly one does, whatever the timestamps, and with real content on
\* both sides remote exactly when remoteUpdatedAt > localUpdatedAt and local
\* otherwise; the content and timestamp returned are those of that side.
C21_ResolvePicksRealThenNewer ==
  op = "resolve" =>
    LET real(c) == c # "" /\ ~isEmptyTemplate(c)
        l == real(content)
        r == real(arg.remoteContent)
        side == IF ~l /\ ~r THEN "none"
                ELSE IF l /\ ~r THEN "local"
                ELSE IF r /\ ~l THEN "remote"
                ELSE IF arg.remoteUpdatedAt > arg.localUpdatedAt THEN "remote"
                ELSE "local"
    IN  /\ out.source = side
        /\ side = "local" => out.content = content /\ out.updatedAt = arg.localUpdatedAt
        /\ side = "remote" => out.content = arg.remoteContent
                              /\ out.updatedAt = arg.remoteUpdatedAt
        /\ side = "none" => out.content = ""

\* both sides hold real content with equal timestamps, and local was taken
C21_Witness ==
  /\ op = "resolve"
  /\ content # ""
  /\ ~isEmptyTemplate(content)
  /\ arg.remoteContent # ""
  /\ ~isEmptyTemplate(arg.remoteContent)
  /\ arg.remoteContent # content
  /\ arg.remoteUpdatedAt = arg.localUpdatedAt
  /\ out.source = "local"

(***************************************************************************)
(* SpecSync: a silent calendar sync with edits committed while the events  *)
(* are fetched.  content is the document state of the App; arg holds the   *)
(* position of the sync (pc), its date, the document when the fetch        *)
(* started (startContent), the number of edits made since, and, once the   *)
(* sync has written, the document it was given (prev) and the events.      *)
(***************************************************************************)

MaxSyncLines == 2

MaxEdits == 1

SyncDates == {"2025-12-16", "2025-12-18"}

SyncFetched == {<<>>, <<"ev">>, <<"10:00 AM - ev", "new">>, <<"ev", "x ev">>}

InitSync ==
  /\ content \in Docs(
       { <<"2025-12-16", "====", "[EVENTS]", "ev", "  - a", "[DOING]", "- a">>,
         <<"2025-12-16", "[EVENTS]", "ev", "  - a", "- ev", "  - b">>,
         <<"2025-12-17", "[DOING]", "- t", "2025-12-16", "[EVENTS]", "old", "\t- c", "[DOING]">> },
       {"2025-12-16", "[DOING]", "  - a"},
       MaxSyncLines)
  /\ op = "none"
  /\ arg = [pc |-> "idle", dateStr |-> "", startContent |-> "", edits |-> 0,
            prev |-> "", events |-> <<>>]
  /\ out = <<>>

\* syncCalendarSilently up to the await of fetchEvents
StartSync ==
  /\ arg.pc = "idle"
  /\ \E d \in SyncDates :
       arg' = [arg EXCEPT !.pc = "fetching", !.dateStr = d, !.startContent = content]
  /\ op' = "start"
  /\ UNCHANGED <<content, out>>

\* handleToggleItem on an item of a section, while the fetch is pending
EditToggle ==
  /\ arg.pc = "fetching"
  /\ arg.edits < MaxEdits
  /\ \E i \in 1..Len(Split(content)) :
       LET L == Split(content)
       IN  /\ Trim(L[i]) # ""
           /\ ~isSectionHeader(L[i])
           /\ ~isDateHeader(L[i])
           /\ \E h \in 1..i : isSectionHeader(L[h]) /\ \A k \in h..i : ~isDateHeader(L[k])
           /\ content' = handleToggleItem(content, L[i])
  /\ arg' = [arg EXCEPT !.edits = @ + 1]
  /\ op' = "toggle"
  /\ UNCHANGED out

\* handleDeleteEventSubtask on an indented line, while the fetch is pending
EditDeleteSubtask ==
  /\ arg.pc = "fetching"
  /\ arg.edits < MaxEdits
  /\ \E d \in SyncDates, i \in 1..Len(Split(content)) :
       /\ isIndented(Split(content)[i])
       /\ content' = deleteEventSubtask(content, d, Split(content)[i])
  /\ arg' = [arg EXCEPT !.edits = @ + 1]
  /\ op' = "delete"
  /\ UNCHANGED out

\* a completion of the sync that writes what it derives from the document
\* captured when the fetch started
CompleteSync_fromCaptured ==
  /\ arg.pc = "fetching"
  /\ \E events \in SyncFetched :
       /\ content' = IF events = <<>> THEN content
                     ELSE syncUpdater(arg.startContent, arg.dateStr, events)
       /\ arg' = [arg EXCEPT !.pc = "done", !.prev = content, !.events = events]
  /\ op' = "sync"
  /\ UNCHANGED out

\* the fetch returns and, unless it returned no event, setContent runs the
\* updater on the document of that moment
CompleteSync ==
  /\ arg.pc = "fetching"
  /\ \E events \in SyncFetched :
       /\ content' = IF events = <<>> THEN content
                     ELSE syncUpdater(content, arg.dateStr, events)
       /\ arg' = [arg EXCEPT !.pc = "done", !.prev = content, !.events = events]
  /\ op' = "sync"
  /\ UNCHANGED out

NextSync == StartSync \/ EditToggle \/ EditDeleteSubtask \/ CompleteSync

SpecSync == InitSync /\ [][NextSync]_vars

MaxParseLines == 3

InitParse ==
  /\ content \in Docs(
       { <<>>,
         <<"2025-12-16", "====", "[EVENTS]", "ev", "  - a", " - b">>,
         <<"2025-12-17", "[DOING]", "x t", "2025-12-16 Tue", "[Events]", "e2", "\tc">> },
       {"2025-12-16", "[EVENTS]", "[DOING]", "ev", " - b", "  - a", ""},
       MaxParseLines)
  /\ op = "none"
  /\ arg = <<>>
  /\ out = <<>>

Parse ==
  /\ op = "none"
  /\ op' = "parse"
  /\ out' = parseDays(content)
  /\ UNCHANGED <<content, arg>>

SpecParse == InitParse /\ [][Parse]_vars

\* C23: every item line of every date block (a non-blank line of a section
\* that is no separator, header or date line and, in an events section, is
\* not indented) is the raw line of an item of a section with that title in
\* the parsed day of that date, also when the date heads several blocks.
C23_EveryBlockParsed ==
  op = "parse" =>
    LET L == Split(content)
        isDate(i) == dateRegex(Trim(L[i]))
        isHead(i) == ~isDate(i) /\ headerRegex(Trim(L[i]))
        dayOf(i) == LET D == {k \in 1..i : isDate(k)}
                    IN  IF D = {} THEN 0 ELSE MaxOf(D)
        headOf(i) == LET H == {h \in (dayOf(i) + 1)..i : isHead(h)}
                     IN  IF H = {} THEN 0 ELSE MaxOf(H)
        title(i) == toUpperCase(headerLabel(Trim(L[headOf(i)])))
        isItem(i) == /\ dayOf(i) # 0
                     /\ headOf(i) # 0
                     /\ ~isDate(i)
                     /\ ~isHead(i)
                     /\ Trim(L[i]) # ""
                     /\ ~StartsWith(Trim(L[i]), "==")
                     /\ ~(Includes(title(i), "EVENT") /\ isIndented(L[i]))
    IN  \A i \in 1..Len(L) :
          isItem(i) =>
            LET date == SubSeq(Trim(L[dayOf(i)]), 1, 10)
            IN  /\ date \in DOMAIN out
                /\ \E s \in 1..Len(out[date]) :
                     /\ out[date][s].title = title(i)
                     /\ \E k \in 1..Len(out[date][s].items) :
                          out[date][s].items[k].raw = L[i]

\* C24, as claimed: a line of an events section that begins with one space or
\* with a tab is a child, so no top-level item of an events section of the
\* parsed model begins with a space or a tab.
C24_OneSpaceIsChild ==
  op = "parse" =>
    \A date \in DOMAIN out :
      \A s \in 1..Len(out[date]) :
        out[date][s].type = "EVENTS" =>
          \A k \in 1..Len(out[date][s].items) :
            LET raw == out[date][s].items[k].raw
            IN  ~(StartsWith(raw, " ") \/ StartsWith(raw, "\t"))

\* C24, amended: the child lines are the lines that begin with two spaces or
\* with a tab.  In each parsed day the items of a section are its non-blank,
\* non-separator lines, and in an events section those that begin with two
\* spaces or a tab are the children of the top-level item before them, while
\* a line with one leading space is a top-level item; deleteEventSubtask
\* changes the document exactly when a matching line of [EVENTS] begins with
\* two spaces or a tab; and moveDoingItemToDone rewrites no line of [EVENTS]
\* other than one that begins with two spaces or a tab.
C24_TwoSpacesOrTabIsChild ==
  op = "parse" =>
    LET L == Split(content)
        n == Len(L)
        idx == [i \in 1..n |-> i]
        two(l) == StartsWith(l, "  ") \/ StartsWith(l, "\t")
        isDate(i) == dateRegex(Trim(L[i]))
        raws(items) == [k \in 1..Len(items) |-> items[k].raw]
        lineAt(I) == [k \in 1..Len(I) |-> L[I[k]]]
        parsedAsStructured(date) ==
          LET p == MaxOf({i \in 1..n : isDate(i) /\ SubSeq(Trim(L[i]), 1, 10) = date})
              q == FirstOr({i \in (p + 1)..n : isDate(i)}, n + 1)
              H == SelectSeq(idx, LAMBDA i : p < i /\ i < q /\ headerRegex(Trim(L[i])))
          IN  /\ Len(out[date]) = Len(H)
              /\ \A s \in 1..Len(H) :
                   LET e == IF s < Len(H) THEN H[s + 1] ELSE q
                       isEv == Includes(toUpperCase(headerLabel(Trim(L[H[s]]))), "EVENT")
                       body(i) == /\ H[s] < i
                                  /\ i < e
                                  /\ Trim(L[i]) # ""
                                  /\ ~StartsWith(Trim(L[i]), "==")
                       child(i) == isEv /\ two(L[i])
                       T == SelectSeq(idx, LAMBDA i : body(i) /\ ~child(i))
                       items == out[date][s].items
                   IN  /\ raws(items) = lineAt(T)
                       /\ \A k \in 1..Len(T) :
                            raws(items[k].children) =
                              lineAt(SelectSeq(idx, LAMBDA c :
                                       /\ body(c)
                                       /\ child(c)
                                       /\ T[k] < c
                                       /\ (k < Len(T) => c < T[k + 1])))
        events(lines, d) == sectionBody(lines, d, "EVENTS")
    IN  /\ \A date \in DOMAIN out : parsedAsStructured(date)
        /\ \A d \in DOMAIN out, r \in 1..n :
             /\ (deleteEventSubtask(content, d, L[r]) # content) <=>
                  (L[r] # "" /\ \E i \in matchesInSection(L, d, "EVENTS", L[r]) : two(L[i]))
             /\ LET M == Split(moveDoingItemToDone(content, d, L[r]))
                IN  /\ Len(events(M, d)) = Len(events(L, d))
                    /\ \A i \in 1..Len(events(L, d)) :
                         events(M, d)[i] # events(L, d)[i] => two(events(L, d)[i])

\* an events section with a top-level item, a child of two spaces under it
\* and a line of one space that the parser lists as the next top-level item
C24_Witness ==
  /\ op = "parse"
  /\ \E date \in DOMAIN out :
       \E s \in 1..Len(out[date]) :
         /\ out[date][s].type = "EVENTS"
         /\ \E k \in 1..(Len(out[date][s].items) - 1) :
              /\ Len(out[date][s].items[k].children) >= 1
              /\ StartsWith(out[date][s].items[k].children[1].raw, "  ")
              /\ StartsWith(out[date][s].items[k + 1].raw, " ")

\* ---------------------------------------------------------------------------
\* extractTagsFromLine on single lines: a prefix, up to MaxTagTokens tokens
\* separated by one kind of whitespace run, and a suffix
\* ---------------------------------------------------------------------------
MaxTagTokens == 3

InitTags ==
  /\ \E prefix \in {"", "  ", "x ", "- ", "X  - ", "x"},
        sep \in {" ", " \t "},
        suffix \in {"", " "},
        n \in 0..MaxTagTokens :
       \E tokens \in [1..n -> {"a", "#t", "#u", "#", "x", "-"}] :
         LET joined[k \in 0..n] ==
               IF k = 0 THEN ""
               ELSE IF k = 1 THEN tokens[1]
               ELSE joined[k - 1] \o sep \o tokens[k]
         IN  content = prefix \o joined[n] \o suffix
  /\ op = "none"
  /\ arg = <<>>
  /\ out = <<>>

ExtractTags ==
  /\ op = "none"
  /\ op' = "tags"
  /\ out' = extractTagsFromLine(content)
  /\ UNCHANGED <<content, arg>>

SpecTags == InitTags /\ [][ExtractTags]_vars

\* C25: with the line trimmed, one leading "x " marker and then one leading
\* "- " marker removed and the rest split at whitespace runs, the tags are the
\* longest run of trailing tokens that start with '#' and have more than one
\* character, in their order in the line; baseText is the tokens before that
\* run joined by single spaces, so a '#' token with a non-tag token after it
\* and a lone '#' stay in baseText; and the tokens of baseText followed by
\* the tags, joined by single spaces, are the marker-stripped line with its
\* whitespace runs collapsed.
C25_TrailingTagsOnly ==
  op = "tags" =>
    LET stripped == Trim(StripDash(StripX(Trim(content))))
        tokens == IF stripped = "" THEN <<>> ELSE SplitWs(stripped)
        n == Len(tokens)
        tag(t) == StartsWith(t, "#") /\ Len(t) > 1
        \* the least k such that every token after the k-th is a tag
        k == MinOf({j \in 0..n : \A i \in (j + 1)..n : tag(tokens[i])})
    IN  /\ out.tags = SubSeq(tokens, k + 1, n)
        /\ out.baseText = JoinSp(SubSeq(tokens, 1, k))
        /\ \A i \in 1..Len(out.tags) : out.tags[i] # "#"
        /\ \A i \in 1..(n - 1) :
             StartsWith(tokens[i], "#") /\ ~tag(tokens[i + 1]) => i <= k
        /\ JoinSp((IF out.baseText = "" THEN <<>> ELSE <<out.baseText>>) \o out.tags)
             = CollapseWs(stripped)

\* a marker, a '#' token in the middle, a lone '#' and two trailing tags
C25_Witness ==
  /\ op = "tags"
  /\ Len(out.tags) = 2
  /\ out.tags[1] # out.tags[2]
  /\ \E i \in 1..(Len(content) - 1) : SubSeq(content, i, i + 1) = "# "
  /\ StartsWith(content, "X  - ")
  /\ out.baseText # ""

\* C26: updateSectionForDate is idempotent: applied again with the same date,
\* section and items to its own output, it returns that output unchanged, also
\* when the first call created the date block or the section.
C26_UpdateIdempotent ==
  op = "update" =>
    updateSectionForDate(out, arg.date, arg.sectionName, arg.newItems) = out

\* C27: when the date's block has an [EVENTS] section with the event and a
\* [DOING] section, and no line of the document is normalized-equal to the
\* task name, deleting the subtask "  - t" from the document that
\* addEventTaskToContent returned gives back the original document, also for
\* a task name that ends with a #tag token.
C27_AddThenDeleteRoundTrip ==
  LET L == Split(content)
  IN  ( /\ op = "add"
        /\ matchesInSection(L, arg.dateStr, "EVENTS", arg.rawLine) # {}
        /\ sectionOf(L, arg.dateStr, "DOING").headerIndex # 0
        /\ \A i \in 1..Len(L) :
             normalizeForMatch(L[i]) # normalizeForMatch(arg.taskName) )
      => deleteEventSubtask(out, arg.dateStr, "  - " \o arg.taskName) = content

\* C28: dedupeDateBlocks preserves the dates of the document: every date
\* token that starts a line of the input (with or without text after it on the
\* line) starts a line of the output, and extractDatesFromContent returns the
\* same list for the input and the output.
C28_DedupeKeepsDates ==
  op = "dedupe" =>
    LET I == Split(content)
        O == Split(out)
    IN  /\ \A i \in 1..Len(I) :
             dateRegex(I[i]) =>
               \E j \in 1..Len(O) : dateRegex(O[j]) /\ SubSeq(O[j], 1, 10) = SubSeq(I[i], 1, 10)
        /\ extractDatesFromContent(out) = extractDatesFromContent(content)

\* C29: a sync that fetched events loses no event subtask: every indented
\* line that stands under a top-level event in the [EVENTS] section of the
\* sync's date, in the document the merge reads, stands in that section of
\* the document after the sync as often as before (once when it stood there
\* once), whatever was fetched.
C29_SyncKeepsSubtasks ==
  (op = "sync" /\ arg.events # <<>>) =>
    LET deduped == dedupeDateBlocks(arg.prev)
        withDate == IF contentHasDate(deduped, arg.dateStr) THEN deduped
                    ELSE appendDayBlockWithSingleGap(deduped, buildDayBlock(arg.dateStr))
        before == sectionBody(Split(withDate), arg.dateStr, "EVENTS")
        after == sectionBody(Split(content), arg.dateStr, "EVENTS")
        child(l) == StartsWith(l, "  ") \/ StartsWith(l, "\t")
        topLevel(l) == Trim(l) # "" /\ ~child(l)
        times(body, l) == Cardinality({k \in 1..Len(body) : body[k] = l})
    IN  \A i \in 1..Len(before) :
          (child(before[i]) /\ \E j \in 1..(i - 1) : topLevel(before[j]))
            => times(after, before[i]) = times(before, before[i])

\* C30: toggling a line of the document and then toggling the line it was
\* rewritten to gives back the document byte for byte, with or without
\* leading indentation, bullet prefix or trailing whitespace.
C30_ToggleTwiceRoundTrip ==
  LET S == {i \in 1..Len(Split(content)) : Split(content)[i] = arg.itemRaw}
  IN  (op = "toggle" /\ S # {}) =>
        handleToggleItem(out, Split(out)[MinOf(S)]) = content

====
